---- MODULE Spec2Model ----
(***************************************************************************)
(* Model of the aqylly HTTP router: the per-method radix trees (tree.go),  *)
(* the router's registration and dispatch (router.go), the handler chain   *)
(* of the request context (context.go), route groups (group.go) and the    *)
(* Logger, Recovery and Timeout middleware (middleware.go).                *)
(*                                                                         *)
(* Nine specifications share the variables: SpecTree (registrations and   *)
(* tree lookups), Spec (the program as New builds it), SpecChain (groups   *)
(* and middleware on a live context), SpecFallback (every way through      *)
(* ServeHTTP on pooled contexts, with the hooks and CORS), SpecServe       *)
(* (requests one after the other through a pool of live contexts),         *)
(* SpecPool (concurrent requests, with the goroutine a Timeout leaves      *)
(* behind) and SpecLimiter (concurrent requests through one RateLimiter    *)
(* middleware).                                                            *)
(*                                                                         *)
(* Strings are sequences of one-character strings, indexed from 1 where    *)
(* the Go code indexes from 0.  Tree nodes live in a heap (a sequence of   *)
(* node records); a *node pointer is an index into the heap, 0 is nil.     *)
(* The uint32 priority counters stay far below their width: a priority is  *)
(* at most the number of registrations, and the node a split decrements    *)
(* has been counted at least once, so they are plain integers here.        *)
(***************************************************************************)
EXTENDS Integers, Sequences, FiniteSets, TLC

VARIABLES heap, trees, routes, fatal, middleware, groups,
          NotFound, MethodNotAllowed, HandleOPTIONS, server, pool, found, resp,
          contexts, free, requests, goroutines,
          limiter, requestsPerSecond, clients, cells, clock, arrivals

vars == <<heap, trees, routes, fatal, middleware, groups,
          NotFound, MethodNotAllowed, HandleOPTIONS, server, pool, found, resp,
          contexts, free, requests, goroutines,
          limiter, requestsPerSecond, clients, cells, clock, arrivals>>

\* The requests in flight: the Context instances, the instances in the
\* pool, the ServeHTTP calls and the goroutines middleware started.
inflight == <<contexts, free, requests, goroutines>>

\* The RateLimiter closure, the clock and the requests passing through it.
limiting == <<limiter, requestsPerSecond, clients, cells, clock, arrivals>>

\* The router as the registrations left it.
router == <<heap, trees, routes, fatal, middleware, groups,
            NotFound, MethodNotAllowed, HandleOPTIONS>>

(***************************************************************************)
(* Bounds of the model.                                                    *)
(***************************************************************************)
MaxRoutes == 3

MaxMiddleware == 3

MaxGroups == 2

MaxRequests == 2

MaxContexts == 2

MaxRate == 2

MaxArrivals == 3

MaxTime == 2

(***************************************************************************)
(* Go string helpers: s[i:], s[:i], s[i] with the 0-based i of the code.   *)
(***************************************************************************)
From(s, i) == SubSeq(s, i + 1, Len(s))

Upto(s, i) == SubSeq(s, 1, i)

At(s, i) == s[i + 1]

Min2(a, b) == IF a < b THEN a ELSE b

(***************************************************************************)
(* Handlers.  A HandlerFunc is modelled by what it does when invoked:      *)
(*   route  - a route handler given to GET/POST/..., it writes a response  *)
(*   group  - the closure RouterGroup.handle builds around route id for    *)
(*            the group g                                                  *)
(*   mw     - a middleware; beh says whether it calls Next, calls Abort,   *)
(*            or returns without calling either; it is named after the     *)
(*            list it was first given to (g: 0 is the router's, else the   *)
(*            group's) and its position there                              *)
(*   hook   - a NotFound / MethodNotAllowed hook                           *)
(***************************************************************************)
NilHandler == [kind |-> "nil", id |-> 0, g |-> 0, beh |-> "none"]

RouteHandler(k) == [kind |-> "route", id |-> k, g |-> 0, beh |-> "none"]

GroupClosure(gid, k) == [kind |-> "group", id |-> k, g |-> gid, beh |-> "none"]

Middleware(owner, n, b) == [kind |-> "mw", id |-> n, g |-> owner, beh |-> b]

Hook(name) == [kind |-> "hook", id |-> name, g |-> 0, beh |-> "none"]

Methods == {"GET", "POST", "OPTIONS"}

NoHandlers == [m \in Methods |-> NilHandler]

(***************************************************************************)
(* The node struct and its zero value.                                     *)
(***************************************************************************)
node == [path |-> <<>>, indices |-> <<>>, wildChild |-> FALSE,
         nType |-> "static", priority |-> 0, children |-> <<>>,
         handlers |-> NoHandlers, params |-> <<>>]

NoPanic == "none"

(***************************************************************************)
(* longestCommonPrefix                                                     *)
(***************************************************************************)
RECURSIVE lcpFrom(_, _, _)
lcpFrom(a, b, i) ==
    IF i < Min2(Len(a), Len(b)) /\ At(a, i) = At(b, i)
    THEN lcpFrom(a, b, i + 1)
    ELSE i

longestCommonPrefix(a, b) == lcpFrom(a, b, 0)

(***************************************************************************)
(* findWildcard: the first wildcard segment of path, its 0-based start     *)
(* (-1 when there is none) and whether it contains no second ':' or '*'.   *)
(***************************************************************************)
IsWild(c) == c = ":" \/ c = "*"

Least(S) == CHOOSE s \in S : \A t \in S : s <= t

\* The wildcard that starts at start: it ends before the next '/'.
wildcardAt(path, start) ==
    LET rest  == From(path, start + 1)
        slash == {e \in 0..(Len(rest) - 1) : At(rest, e) = "/"}
        end   == IF slash = {} THEN Len(rest) ELSE Least(slash)
    IN  [wildcard |-> SubSeq(path, start + 1, start + 1 + end),
         i        |-> start,
         valid    |-> \A e \in 0..(end - 1) : ~IsWild(At(rest, e))]

findWildcard(path) ==
    LET starts == {s \in 0..(Len(path) - 1) : IsWild(At(path, s))}
    IN  IF starts = {}
        THEN [wildcard |-> <<>>, i |-> -1, valid |-> FALSE]
        ELSE wildcardAt(path, Least(starts))

(***************************************************************************)
(* incrementChildPrio: pos is the 0-based position of the code.            *)
(***************************************************************************)
RECURSIVE bubble(_, _, _, _)
bubble(h, cs, newPos, prio) ==
    IF newPos > 0 /\ h[cs[newPos]].priority < prio
    THEN bubble(h,
                [cs EXCEPT ![newPos] = cs[newPos + 1], ![newPos + 1] = cs[newPos]],
                newPos - 1, prio)
    ELSE [cs |-> cs, newPos |-> newPos]

\* incrementChildPrio without the rebuilt index string.
incrementChildPrioKeepIndices(h, n, pos) ==
    LET c    == h[n].children[pos + 1]
        prio == h[c].priority + 1
        h1   == [h EXCEPT ![c].priority = prio]
        b    == bubble(h1, h1[n].children, pos, prio)
    IN  [heap   |-> [h1 EXCEPT ![n].children = b.cs],
         newPos |-> b.newPos]

incrementChildPrio(h, n, pos) ==
    LET c    == h[n].children[pos + 1]
        prio == h[c].priority + 1
        h1   == [h EXCEPT ![c].priority = prio]
        b    == bubble(h1, h1[n].children, pos, prio)
        ind  == h1[n].indices
        ind2 == IF b.newPos # pos
                THEN Upto(ind, b.newPos) \o SubSeq(ind, pos + 1, pos + 1)
                     \o SubSeq(ind, b.newPos + 1, pos) \o From(ind, pos + 1)
                ELSE ind
    IN  [heap   |-> [h1 EXCEPT ![n].children = b.cs, ![n].indices = ind2],
         newPos |-> b.newPos]

(***************************************************************************)
(* Results of the tree operations: the heap as the operation left it and   *)
(* the panic that ended it (NoPanic when it returned).                     *)
(***************************************************************************)
Ret(h) == [heap |-> h, panic |-> NoPanic]

Panic(h, msg) == [heap |-> h, panic |-> msg]

SetHandler(h, n, method, handler) ==
    [h EXCEPT ![n].handlers = [@ EXCEPT ![method] = handler]]

(***************************************************************************)
(* insertChild: one iteration of its for loop per call; insertWildcard is  *)
(* the iteration once findWildcard has returned fw.                        *)
(***************************************************************************)
RECURSIVE insertChild(_, _, _, _, _), insertWildcard(_, _, _, _, _, _)
insertChild(h, n, path, method, handler) ==
    insertWildcard(h, n, path, method, handler, findWildcard(path))

insertWildcard(h, n, path, method, handler, fw) ==
    LET wildcard == fw.wildcard
        i        == fw.i
    IN
    IF i < 0
    THEN \* no wildcard found: insert the path and the handler
         Ret(SetHandler([h EXCEPT ![n].path = path], n, method, handler))
    ELSE IF ~fw.valid
    THEN Panic(h, "only one wildcard per path segment is allowed")
    ELSE IF Len(wildcard) < 2
    THEN Panic(h, "wildcards must be named with a non-empty name")
    ELSE IF Len(h[n].children) > 0
    THEN Panic(h, "wildcard segment conflicts with existing children")
    ELSE IF wildcard[1] = ":"
    THEN \* param
         LET h1    == IF i > 0 THEN [h EXCEPT ![n].path = Upto(path, i)] ELSE h
             path1 == IF i > 0 THEN From(path, i) ELSE path
             child == Len(h) + 1
             h2    == Append([h1 EXCEPT ![n].wildChild = TRUE,
                                        ![n].children = <<child>>],
                             [node EXCEPT !.nType = "param",
                                          !.path = wildcard,
                                          !.priority = 1])
         IN  IF Len(wildcard) < Len(path1)
             THEN LET child2 == Len(h) + 2
                      h3     == Append([h2 EXCEPT ![child].children = <<child2>>],
                                       [node EXCEPT !.priority = 1])
                  IN  insertChild(h3, child2, From(path1, Len(wildcard)),
                                  method, handler)
             ELSE Ret([SetHandler(h2, child, method, handler)
                         EXCEPT ![child].params = Append(@, From(wildcard, 1))])
    ELSE \* catchAll
         IF i + Len(wildcard) # Len(path)
         THEN Panic(h, "catch-all routes are only allowed at the end of the path")
         ELSE IF Len(h[n].path) > 0 /\ h[n].path[Len(h[n].path)] = "/"
         THEN Panic(h, "catch-all conflicts with existing handle for the path segment root")
         ELSE IF i - 1 < 0
         THEN Panic(h, "runtime error: index out of range")
         ELSE IF At(path, i - 1) # "/"
         THEN Panic(h, "no / before catch-all")
         ELSE LET j      == i - 1
                  child  == Len(h) + 1
                  child2 == Len(h) + 2
                  h1     == [h EXCEPT ![n].path = Upto(path, j),
                                      ![n].children = <<child>>,
                                      ![n].indices = <<At(path, j)>>]
                  h2     == Append(h1, [node EXCEPT !.wildChild = TRUE,
                                                    !.nType = "catchAll",
                                                    !.priority = 1,
                                                    !.children = <<child2>>])
                  h3     == Append(h2, [node EXCEPT
                                          !.path = From(path, j),
                                          !.nType = "catchAll",
                                          !.handlers = [NoHandlers EXCEPT ![method] = handler],
                                          !.priority = 1,
                                          !.params = <<From(wildcard, 1)>>])
              IN  Ret(h3)

(***************************************************************************)
(* node.addRoute: walk is one iteration of the loop labelled walk.         *)
(***************************************************************************)
IndexOf(indices, c) ==
    LET hits == {k \in 0..(Len(indices) - 1) : At(indices, k) = c}
    IN  IF hits = {} THEN -1 ELSE CHOOSE k \in hits : \A l \in hits : k <= l

\* The split that leaves the handlers on the node that keeps the prefix.
splitEdgeKeepHandler(h, n, path, i) ==
    LET child == Len(h) + 1
        old   == h[n]
    IN  Append([h EXCEPT ![n].children = <<child>>,
                         ![n].indices = <<At(old.path, i)>>,
                         ![n].path = Upto(path, i),
                         ![n].wildChild = FALSE,
                         ![n].params = <<>>],
               [path      |-> From(old.path, i),
                wildChild |-> old.wildChild,
                nType     |-> "static",
                indices   |-> old.indices,
                children  |-> old.children,
                handlers  |-> old.handlers,
                priority  |-> old.priority - 1,
                params    |-> old.params])

splitEdge(h, n, path, i) ==
    LET child == Len(h) + 1
        old   == h[n]
    IN  Append([h EXCEPT ![n].children = <<child>>,
                         ![n].indices = <<At(old.path, i)>>,
                         ![n].path = Upto(path, i),
                         ![n].handlers = NoHandlers,
                         ![n].wildChild = FALSE,
                         ![n].params = <<>>],
               [path      |-> From(old.path, i),
                wildChild |-> old.wildChild,
                nType     |-> "static",
                indices   |-> old.indices,
                children  |-> old.children,
                handlers  |-> old.handlers,
                priority  |-> old.priority - 1,
                params    |-> old.params])

RECURSIVE walk(_, _, _, _, _)
walk(h, n, path, method, handler) ==
    LET i  == longestCommonPrefix(path, h[n].path)
        h1 == IF i < Len(h[n].path) THEN splitEdge(h, n, path, i) ELSE h
    IN  IF i < Len(path)
        THEN LET path1 == From(path, i)
                 c     == path1[1]
                 k     == IndexOf(h1[n].indices, c)
             IN  IF k >= 0
                 THEN LET r == incrementChildPrio(h1, n, k)
                      IN  walk(r.heap, r.heap[n].children[r.newPos + 1],
                               path1, method, handler)
                 ELSE IF ~IsWild(c)
                 THEN LET child == Len(h1) + 1
                          h2    == Append([h1 EXCEPT ![n].indices = Append(@, c),
                                                     ![n].children = Append(@, child)],
                                          node)
                          r     == incrementChildPrio(h2, n, Len(h2[n].indices) - 1)
                      IN  insertChild(r.heap, child, path1, method, handler)
                 ELSE insertChild(h1, n, path1, method, handler)
        ELSE \* otherwise add handler to current node
             Ret(SetHandler(h1, n, method, handler))

\* n.nType = root, once insertChild has returned r.
setRoot(r, n) ==
    IF r.panic = NoPanic THEN Ret([r.heap EXCEPT ![n].nType = "root"]) ELSE r

addRoute(h, n, path, method, handler) ==
    LET h1 == [h EXCEPT ![n].priority = @ + 1]
    IN  IF Len(h[n].path) = 0 /\ Len(h[n].children) = 0
        THEN setRoot(insertChild(h1, n, path, method, handler), n)
        ELSE walk(h1, n, path, method, handler)

(***************************************************************************)
(* node.getValue: lookup is one iteration of the loop labelled walk.       *)
(* The result is the handler (NilHandler for nil), the params map and the  *)
(* panic that ended the lookup, if any.                                    *)
(***************************************************************************)
NoParams == <<>>

Value(handler, params) == [handler |-> handler, params |-> params, panic |-> NoPanic]

Miss == Value(NilHandler, NoParams)

LookupPanic(msg) == [handler |-> NilHandler, params |-> NoParams, panic |-> msg]

SetParam(params, key, value) ==
    [k \in (DOMAIN params) \cup {key} |-> IF k = key THEN value ELSE params[k]]

ParamEnd(path) ==
    LET slash == {e \in 0..(Len(path) - 1) : At(path, e) = "/"}
    IN  IF slash = {} THEN Len(path)
        ELSE CHOOSE e \in slash : \A f \in slash : e <= f

HandlerOrMiss(h, n, method, params) ==
    IF h[n].handlers[method] # NilHandler
    THEN Value(h[n].handlers[method], params)
    ELSE Miss

RECURSIVE lookup(_, _, _, _, _)
lookup(h, n, path, method, params) ==
    LET prefix == h[n].path
    IN
    IF Len(path) > Len(prefix)
    THEN IF Upto(path, Len(prefix)) = prefix
         THEN LET path1 == From(path, Len(prefix))
              IN  IF ~h[n].wildChild
                  THEN LET k == IndexOf(h[n].indices, path1[1])
                       IN  IF k < 0 THEN Miss
                           ELSE IF k >= Len(h[n].children)
                           THEN LookupPanic("runtime error: index out of range")
                           ELSE lookup(h, h[n].children[k + 1], path1, method, params)
                  ELSE IF Len(h[n].children) = 0
                  THEN LookupPanic("runtime error: index out of range")
                  ELSE LET c == h[n].children[1]
                       IN  CASE h[c].nType = "param" ->
                                 LET end == ParamEnd(path1)
                                     ps  == IF Len(h[c].path) > 0
                                            THEN SetParam(params, From(h[c].path, 1),
                                                          Upto(path1, end))
                                            ELSE params
                                 IN  IF end < Len(path1)
                                     THEN IF Len(h[c].children) > 0
                                          THEN lookup(h, h[c].children[1],
                                                      From(path1, end), method, ps)
                                          ELSE Miss
                                     ELSE IF h[c].handlers[method] # NilHandler
                                     THEN Value(h[c].handlers[method], ps)
                                     ELSE IF Len(h[c].children) = 0
                                     THEN Miss
                                     ELSE HandlerOrMiss(h, h[c].children[1], method, ps)
                              [] h[c].nType = "catchAll" ->
                                 IF Len(h[c].path) > 1 /\ Len(h[c].params) = 0
                                 THEN LookupPanic("runtime error: index out of range")
                                 ELSE HandlerOrMiss(h, c, method,
                                        IF Len(h[c].path) > 1
                                        THEN SetParam(params, h[c].params[1], path1)
                                        ELSE params)
                              [] OTHER -> LookupPanic("invalid node type")
         ELSE Miss
    ELSE IF path = prefix
    THEN HandlerOrMiss(h, n, method, params)
    ELSE Miss

getValue(h, n, path, method) == lookup(h, n, path, method, NoParams)

\* A router that keeps one tree for all methods.
routerAddRouteShared(h, t, method, path, handler) ==
    LET fresh == \A m \in DOMAIN t : t[m] = 0
        root  == IF fresh THEN Len(h) + 1 ELSE (CHOOSE m \in DOMAIN t : t[m] # 0)
        rootn == IF fresh THEN Len(h) + 1 ELSE t[root]
        h1    == IF fresh THEN Append(h, node) ELSE h
        t1    == [m \in DOMAIN t |-> rootn]
    IN  [trees |-> t1] @@ addRoute(h1, rootn, path, method, handler)

\* A router that registers a path without looking at its first byte.
routerAddRouteUnchecked(h, t, method, path, handler) ==
    IF Len(path) = 0
    THEN [heap |-> h, trees |-> t, panic |-> "runtime error: index out of range"]
    ELSE LET fresh == t[method] = 0
             root  == IF fresh THEN Len(h) + 1 ELSE t[method]
             h1    == IF fresh THEN Append(h, node) ELSE h
             t1    == [t EXCEPT ![method] = root]
         IN  [trees |-> t1] @@ addRoute(h1, root, path, method, handler)

(***************************************************************************)
(* Router.addRoute: the path check, the lazily created root of the         *)
(* method's tree, and node.addRoute on it.                                 *)
(***************************************************************************)
routerAddRoute(h, t, method, path, handler) ==
    IF Len(path) = 0
    THEN [heap |-> h, trees |-> t, panic |-> "runtime error: index out of range"]
    ELSE IF path[1] # "/"
    THEN [heap |-> h, trees |-> t, panic |-> "path must begin with '/'"]
    ELSE LET fresh == t[method] = 0
             root  == IF fresh THEN Len(h) + 1 ELSE t[method]
             h1    == IF fresh THEN Append(h, node) ELSE h
             t1    == [t EXCEPT ![method] = root]
         IN  [trees |-> t1] @@ addRoute(h1, root, path, method, handler)

(***************************************************************************)
(* Route patterns and request paths the model registers and looks up.      *)
(***************************************************************************)
UsersId == <<"/", "u", "s", "e", "r", "s", "/", ":", "i", "d">>

UsersIdPosts == UsersId \o <<"/", "p", "o", "s", "t", "s", "/", ":", "p", "o", "s", "t", "I", "d">>

Patterns ==
    { UsersId, UsersIdPosts,
      <<"/", "a">>,
      <<"/", "a", "/", ":", "x">>,
      <<"/", "a", "/", ":", "y">>,
      <<"/", "a", "/", "b">>,
      <<"/", "f", "/", "*", "x">>,
      <<"/", "f", "/", "a">>,
      <<"/", "a", "/", ":", "x", "/">>,
      <<"/", "f", "/", "*", "y">> }

RequestPaths ==
    { <<"/", "u", "s", "e", "r", "s", "/", "4", "2">>,
      <<"/", "u", "s", "e", "r", "s", "/", "4", "2", "/", "p", "o", "s", "t", "s", "/", "7">>,
      <<"/", "a">>,
      <<"/", "a", "/", "5">>,
      <<"/", "a", "/", "b">>,
      <<"/", "f", "/", "a">>,
      <<"/", "f", "/", "a", "/", "b">>,
      <<"/", "a", "/", "5", "/">> }

RouteMethods == {"GET", "POST"}

\* The patterns registered under POST as well as under GET.
PostPatterns ==
    { <<"/", "a">>,
      <<"/", "a", "/", ":", "x">>,
      <<"/", "a", "/", ":", "y">> }

(***************************************************************************)
(* State after New(): no trees, no middleware, HandleOPTIONS on, no hooks. *)
(* routes is the list of the registration calls made so far, each with the *)
(* panic that ended it (NoPanic when it returned); fatal is the panic that *)
(* ended the program during registration.  server is nil until Run; the    *)
(* program registers its routes and middleware, then calls Run, and        *)
(* requests are dispatched from then on.                                   *)
(***************************************************************************)
\* A context.Context as the handlers see it: whether and when the request's
\* context is cancelled (at counts the handler events before it), and what
\* became of the context a handler derived from it.
RequestContext(cancels, at) == [cancels |-> cancels, at |-> at, derived |-> "none"]

\* The context of a request that is never cancelled.
Background == RequestContext(FALSE, 0)

NoValues == <<>>

NoEntry == [Params |-> NoParams, index |-> 0, statusCode |-> 0,
            queryCache |-> "nil", values |-> NoValues]

\* A ServeHTTP call: where it is (pc), its request, the Context it holds.
NoRequest == [pc |-> "idle", method |-> "", path |-> <<>>, c |-> 0]

NoFound == [method |-> "", path |-> <<>>, handler |-> NilHandler,
            params |-> NoParams, panic |-> NoPanic]

\* A request that has not reached the RateLimiter yet.
NoArrival == [pc |-> "idle", ip |-> "", now |-> 0, cl |-> 0, count |-> 0, window |-> 0]

NoResp == [method |-> "", path |-> <<>>, outcome |-> "none", status |-> 0,
           statusCode |-> 0, allow |-> {}, cors |-> FALSE, params |-> NoParams,
           log |-> <<>>,
           index |-> 0, handlers |-> <<>>, seen |-> <<>>, entry |-> NoEntry,
           ctx |-> Background]

Init ==
    /\ heap = <<>>
    /\ trees = [m \in Methods |-> 0]
    /\ routes = <<>>
    /\ fatal = NoPanic
    /\ middleware = <<>>
    /\ groups = <<>>
    /\ NotFound = NilHandler
    /\ MethodNotAllowed = NilHandler
    /\ HandleOPTIONS = TRUE
    /\ server = "nil"
    /\ pool = {}
    /\ found = NoFound
    /\ resp = NoResp
    /\ contexts = <<>>
    /\ free = {}
    /\ requests = [i \in 1..MaxRequests |-> NoRequest]
    /\ goroutines = {}
    /\ limiter = "nil"
    /\ requestsPerSecond = 0
    /\ clients = <<>>
    /\ cells = <<>>
    /\ clock = 0
    /\ arrivals = [i \in 1..MaxArrivals |-> NoArrival]

(***************************************************************************)
(* Router.GET / POST / ...: register the next route handler.               *)
(***************************************************************************)
Register(method, path, handler) ==
    \E r \in {routerAddRoute(heap, trees, method, path, handler)} :
        /\ heap' = r.heap
        /\ trees' = r.trees
        /\ fatal' = r.panic
        /\ routes' = Append(routes, [method |-> method, path |-> path,
                                     handler |-> handler, panic |-> r.panic])

Handle(method, path) ==
    /\ fatal = NoPanic
    /\ server = "nil"
    /\ Len(routes) < MaxRoutes
    /\ Register(method, path, RouteHandler(Len(routes) + 1))
    /\ UNCHANGED <<limiting, inflight, middleware, groups, NotFound, MethodNotAllowed,
                   HandleOPTIONS, server, pool, found, resp>>

(***************************************************************************)
(* Router.Any: register one handler under every method, in the order of    *)
(* the method list; a panic of one registration ends the loop.             *)
(***************************************************************************)
AnyMethods == <<"GET", "POST", "OPTIONS">>

RECURSIVE anyLoop(_, _, _, _, _, _)
anyLoop(h, t, rs, ms, path, handler) ==
    IF ms = <<>>
    THEN [heap |-> h, trees |-> t, routes |-> rs, panic |-> NoPanic]
    ELSE LET r  == routerAddRoute(h, t, ms[1], path, handler)
             r1 == Append(rs, [method |-> ms[1], path |-> path,
                               handler |-> handler, panic |-> r.panic])
         IN  IF r.panic # NoPanic
             THEN [heap |-> r.heap, trees |-> r.trees, routes |-> r1, panic |-> r.panic]
             ELSE anyLoop(r.heap, r.trees, r1, From(ms, 1), path, handler)

RouterAny(path) ==
    /\ fatal = NoPanic
    /\ server = "nil"
    /\ Len(routes) + Len(AnyMethods) <= MaxRoutes
    /\ \E r \in {anyLoop(heap, trees, routes, AnyMethods, path,
                          RouteHandler(Len(routes) + 1))} :
          /\ heap' = r.heap
          /\ trees' = r.trees
          /\ fatal' = r.panic
          /\ routes' = r.routes
    /\ UNCHANGED <<limiting, inflight, middleware, groups, NotFound, MethodNotAllowed,
                   HandleOPTIONS, server, pool, found, resp>>

(***************************************************************************)
(* Router.Run: the server starts serving requests.                         *)
(***************************************************************************)
Run ==
    /\ fatal = NoPanic
    /\ server = "nil"
    /\ server' = "running"
    /\ UNCHANGED <<limiting, inflight, heap, trees, routes, fatal, middleware, groups,
                   NotFound, MethodNotAllowed, HandleOPTIONS, pool, found, resp>>

(***************************************************************************)
(* A lookup in the tree of a method, as ServeHTTP does it.                 *)
(***************************************************************************)
treeValue(h, t, path, method) ==
    IF t[method] = 0 THEN Miss ELSE getValue(h, t[method], path, method)

Lookup(method, path) ==
    /\ server = "running"
    /\ found' = [method |-> method, path |-> path] @@ treeValue(heap, trees, path, method)
    /\ UNCHANGED <<limiting, inflight, heap, trees, routes, fatal, middleware, groups,
                   NotFound, MethodNotAllowed, HandleOPTIONS, server, pool, resp>>

(***************************************************************************)
(* The request context.  log records what ran, in order: a middleware      *)
(* logs "pre" when it starts and "post" before it returns, a route handler *)
(* or a hook logs "run".  wrote is the status of the first WriteHeader on  *)
(* the response sink (0 while nothing is written), allow the Allow header. *)
(***************************************************************************)
StatusOK == 200

StatusNoContent == 204

StatusNotFound == 404

StatusMethodNotAllowed == 405

StatusUnauthorized == 401

StatusInternalServerError == 500

StatusRequestTimeout == 408

StatusFound == 302

StatusTooManyRequests == 429

\* A route handler, middleware or closure whose body does b.
HandlerFunc(handler, b) == [handler EXCEPT !.beh = b]

(***************************************************************************)
(* The Context.  values is c.ctx, the chain context.WithValue builds,      *)
(* newest last; queryCache is "nil" until Query parses the URL; wrote is   *)
(* the status the ResponseWriter committed (0: none yet); panicking is the *)
(* panic unwinding the goroutine that runs the chain ("crashed" when it    *)
(* went off in a goroutine nobody recovers in: the process exits).  log,   *)
(* seen and entry record what the handlers did and read, and the context   *)
(* as it was when the chain was started; timer says whether the timer of   *)
(* a Timeout fires before the chain below it is done, and spawned holds    *)
(* the handlers still running in goroutines the middleware left behind.    *)
(***************************************************************************)
\* newContext(w, r) for a request r; a nil r is dereferenced by r.Context().
newContext(r) ==
    IF r = "nil"
    THEN [panic |-> "runtime error: invalid memory address or nil pointer dereference"]
    ELSE [panic |-> NoPanic,
          ctx |-> [Request |-> r, Params |-> NoParams, index |-> -1, handlers |-> <<>>,
                   statusCode |-> StatusOK, wrote |-> 0, allow |-> {}, cors |-> FALSE,
                   log |-> <<>>, values |-> NoValues, queryCache |-> "nil",
                   seen |-> <<>>, entry |-> NoEntry, panicking |-> NoPanic,
                   timer |-> "done", spawned |-> <<>>,
                   ctx |-> Background]]

Event(handler, at) == [h |-> handler, at |-> at]

Logged(c, handler, at) == [c EXCEPT !.log = Append(@, Event(handler, at))]

\* What a handler read: the value of a key, or the status code.
Seen(c, handler, what, value) ==
    [c EXCEPT !.seen = Append(@, [h |-> handler, what |-> what, value |-> value])]

\* Context.Status: record the code, WriteHeader (only the first one counts).
Status(c, code) ==
    [c EXCEPT !.statusCode = code, !.wrote = IF @ = 0 THEN code ELSE @]

\* Context.Redirect: http.Redirect writes the header; statusCode is not set.
Redirect(c, code) == [c EXCEPT !.wrote = IF @ = 0 THEN code ELSE @]

\* Context.Query: parse the URL once, then answer from the cache.
Query(c) == [c EXCEPT !.queryCache = IF @ = "nil" THEN "parsed" ELSE @]

\* A Value that answers with the oldest binding of the key.
OldestValue(values, key) ==
    LET at == {i \in DOMAIN values : values[i].key = key}
    IN  IF at = {} THEN "nil" ELSE values[Least(at)].val

\* context.Context.Value on the chain: the newest binding of the key.
Value_(values, key) ==
    LET at == {i \in DOMAIN values : values[i].key = key}
    IN  IF at = {} THEN "nil" ELSE values[CHOOSE i \in at : \A j \in at : j <= i].val

\* Context.Get
Get(c, key) == Value_(c.values, key)

\* Context.Set
Set(c, key, val) == [c EXCEPT !.values = Append(@, [key |-> key, val |-> val])]

\* Context.Done / Context.Err: the done channel is closed and Err is non-nil
\* once the request's context is cancelled, or the context a handler put in
\* c.ctx was cancelled or ran out of time.
Done(c) ==
    \/ c.ctx.derived \in {"canceled", "expired"}
    \/ c.ctx.cancels /\ Len(c.log) >= c.ctx.at

\* Context.WithTimeout / WithDeadline / WithCancel: c.ctx becomes the derived
\* context (WithContext); the callback returned cancels it.
WithCancel(c) ==
    [c EXCEPT !.ctx.derived = IF @ \in {"canceled", "expired"} THEN @ ELSE "live"]

cancel(c) == [c EXCEPT !.ctx.derived = IF @ = "live" THEN "canceled" ELSE @]

\* The timer of a context derived by WithTimeout fires.
expire(c) == [c EXCEPT !.ctx.derived = IF @ = "live" THEN "expired" ELSE @]

\* An Abort that leaves the cursor where it is.
AbortLeavesIndex(c) == c

\* Context.Abort
Abort(c) == [c EXCEPT !.index = Len(c.handlers)]

\* Context.AbortWithStatus: Status, then Abort.
AbortWithStatus(c, code) == Abort(Status(c, code))

\* Context.AbortWithJSON: Abort, then JSON (which sets the status).
AbortWithJSON(c, code) == Status(Abort(c), code)

\* panic(v) in the goroutine that runs the chain.
Panicking(c) == c.panicking # NoPanic

panic(c) == [c EXCEPT !.panicking = "panic"]

(***************************************************************************)
(* RouterGroup.combineMiddleware over the groups gs (0 is the nil parent). *)
(***************************************************************************)
RECURSIVE combineMiddleware(_, _)
combineMiddleware(gs, g) ==
    IF gs[g].parent # 0
    THEN combineMiddleware(gs, gs[g].parent) \o gs[g].middleware
    ELSE gs[g].middleware

(***************************************************************************)
(* Context.Next, and what invoking a HandlerFunc does.  chainLoop is the   *)
(* for loop of Next; a panic unwinds every frame up to a deferred recover. *)
(***************************************************************************)
Key == "k"

RECURSIVE Next(_, _), chainLoop(_, _), invoke(_, _, _)
Next(c, gs) == chainLoop([c EXCEPT !.index = @ + 1], gs)

\* A Next without the loop: it invokes the handler at the cursor and stops.
chainLoopOnce(c, gs) ==
    IF c.index < Len(c.handlers)
    THEN [invoke(c.handlers[c.index + 1], c, gs) EXCEPT !.index = @ + 1]
    ELSE c

\* c.index++ and the loop again, after the handler returned with c1.
resume(c1, gs) ==
    IF Panicking(c1) THEN c1 ELSE chainLoop([c1 EXCEPT !.index = @ + 1], gs)

\* A loop that stops once the context is done.
chainLoopUntilDone(c, gs) ==
    IF c.index < Len(c.handlers) /\ ~Done(c)
    THEN resume(invoke(c.handlers[c.index + 1], c, gs), gs)
    ELSE c

chainLoop(c, gs) ==
    IF c.index < Len(c.handlers)
    THEN resume(invoke(c.handlers[c.index + 1], c, gs), gs)
    ELSE c

\* The code of a middleware after its c.Next() returned with c1.
afterNext(c1, handler) ==
    IF Panicking(c1) THEN c1 ELSE Logged(c1, handler, "post")

\* A middleware that looks at the context once the chain below is done.
pollDone(c1, handler) ==
    IF Panicking(c1) THEN c1
    ELSE Logged(Seen(c1, handler, "Done", Done(c1)), handler, "post")

\* Logger: read c.statusCode once the chain below is done.
logStatus(c1, handler) ==
    IF Panicking(c1)
    THEN c1
    ELSE Logged(Seen(c1, handler, "status", c1.statusCode), handler, "post")

\* Recovery: the deferred function recovers a panic of this goroutine.
recover(c1, handler) ==
    IF c1.panicking = "panic"
    THEN Logged(AbortWithJSON([c1 EXCEPT !.panicking = NoPanic],
                              StatusInternalServerError),
                handler, "recovered")
    ELSE afterNext(c1, handler)

\* Timeout, done first: the goroutine ran c.Next() to its end; a panic in
\* it is not recovered by anyone.
timeoutDone(c1, handler) ==
    IF Panicking(c1) THEN [c1 EXCEPT !.panicking = "crashed"]
    ELSE Logged(c1, handler, "post")

\* Timeout, timer first: the goroutine has done c.index++ and is inside the
\* handler below; Timeout answers 408 and returns, the goroutine goes on.
timeoutFired(c, handler) ==
    LET c1 == [c EXCEPT !.index = @ + 1]
    IN  Logged(AbortWithJSON([c1 EXCEPT !.spawned =
                                  Append(@, c.handlers[c.index + 2])],
                             StatusRequestTimeout),
               handler, "timeout")

\* The closure RouterGroup.handle registers, after its c.Next() returned.
\* A closure that puts back the cursor and leaves the group's chain in place.
restoreIndex(c1, originalHandlers, originalIndex) ==
    IF Panicking(c1)
    THEN c1
    ELSE [c1 EXCEPT !.index = originalIndex]

restore(c1, originalHandlers, originalIndex) ==
    IF Panicking(c1)
    THEN c1
    ELSE [c1 EXCEPT !.handlers = originalHandlers, !.index = originalIndex]

invoke(handler, c, gs) ==
    CASE handler.kind = "mw" /\ handler.beh = "next" ->
            afterNext(Next(Logged(c, handler, "pre"), gs), handler)
      [] handler.kind = "mw" /\ handler.beh = "abort" ->
            \* as BasicAuth on a failed login: AbortWithJSON, then return
            Logged(AbortWithJSON(Logged(c, handler, "pre"), StatusUnauthorized),
                   handler, "post")
      [] handler.kind = "mw" /\ handler.beh = "skip" ->
            \* returns without calling Next or Abort
            Logged(Logged(c, handler, "pre"), handler, "post")
      [] handler.kind = "mw" /\ handler.beh = "logger" ->
            logStatus(Next(Logged(c, handler, "pre"), gs), handler)
      [] handler.kind = "mw" /\ handler.beh = "recovery" ->
            recover(Next(Logged(c, handler, "pre"), gs), handler)
      [] handler.kind = "mw" /\ handler.beh = "set" ->
            \* reads the key, sets it to a value of its own, calls Next
            afterNext(Next(Set(Seen(Logged(c, handler, "pre"), handler, Key,
                                    Get(c, Key)),
                               Key, handler),
                           gs),
                      handler)
      [] handler.kind = "mw" /\ handler.beh = "cors" ->
            \* CORS for a request of an allowed origin: the Access-Control
            \* headers, then 204 for a preflight and Next for any other method
            IF c.Request = "OPTIONS"
            THEN Logged(AbortWithStatus([Logged(c, handler, "pre") EXCEPT !.cors = TRUE],
                                        StatusNoContent),
                        handler, "post")
            ELSE afterNext(Next([Logged(c, handler, "pre") EXCEPT !.cors = TRUE], gs),
                           handler)
      [] handler.kind = "mw" /\ handler.beh = "poll" ->
            \* calls Next, then reads c.Err() / c.Done()
            pollDone(Next(Logged(c, handler, "pre"), gs), handler)
      [] handler.kind = "mw" /\ handler.beh = "timeout" ->
            IF c.timer = "fired" /\ c.index + 2 <= Len(c.handlers)
            THEN timeoutFired(c, handler)
            ELSE timeoutDone(Next(Logged(c, handler, "pre"), gs), handler)
      [] handler.kind = "route" /\ handler.beh = "none" ->
            Status(Logged(c, handler, "run"), StatusOK)
      [] handler.kind = "route" /\ handler.beh = "set" ->
            \* reads the query and the key, sets the key, answers
            Status(Set(Seen(Query(Logged(c, handler, "run")), handler, Key,
                            Get(c, Key)),
                       Key, handler),
                   StatusOK)
      [] handler.kind = "route" /\ handler.beh = "twice" ->
            \* two responses: c.Status(200), then c.JSON(404, ...)
            Status(Status(Logged(c, handler, "run"), StatusOK), StatusNotFound)
      [] handler.kind = "route" /\ handler.beh = "redirect" ->
            Redirect(Logged(c, handler, "run"), StatusFound)
      [] handler.kind = "route" /\ handler.beh = "abort" ->
            \* refuses the request: AbortWithJSON, then return
            AbortWithJSON(Logged(c, handler, "run"), StatusUnauthorized)
      [] handler.kind = "route" /\ handler.beh = "poll" ->
            \* reads c.Err() / c.Done(), then answers
            Status(Seen(Logged(c, handler, "run"), handler, "Done",
                        Done(Logged(c, handler, "run"))),
                   StatusOK)
      [] handler.kind = "route" /\ handler.beh = "derive" ->
            \* cancel := c.WithCancel(); defer cancel(); answers in time
            cancel(Status(WithCancel(Logged(c, handler, "run")), StatusOK))
      [] handler.kind = "route" /\ handler.beh = "slow" ->
            \* the /slow handler: WithTimeout(2s), defer cancel(), and a select
            \* in which c.Done() comes before the 3s of the work
            cancel(Status(expire(WithCancel(Logged(c, handler, "run"))),
                          StatusRequestTimeout))
      [] handler.kind = "route" /\ handler.beh = "panic" ->
            panic(Logged(c, handler, "run"))
      [] handler.kind = "route" /\ handler.beh = "writepanic" ->
            \* answers, then panics
            panic(Status(Logged(c, handler, "run"), StatusOK))
      [] handler.kind = "hook" ->
            Status(Logged(c, handler, "run"),
                   IF handler.id = 1 THEN StatusNotFound ELSE StatusMethodNotAllowed)
      [] handler.kind = "group" ->
            \* the closure RouterGroup.handle registers
            restore(Next([c EXCEPT !.handlers =
                               Append(combineMiddleware(gs, handler.g),
                                      HandlerFunc(RouteHandler(handler.id),
                                                  handler.beh)),
                                   !.index = -1],
                         gs),
                    c.handlers, c.index)
      [] OTHER -> c

(***************************************************************************)
(* Router.ServeHTTP from the reset of the acquired context on              *)
(* (router.go:145-210).  The result is the context as the request left it  *)
(* and the branch taken: "route", "options", "405", "404", or "panic" when *)
(* a lookup panicked.  The range over r.trees visits the methods in any    *)
(* order, so with several possible results the branch is one of outcomes.  *)
(***************************************************************************)
NotFoundHook == Hook(1)

MethodNotAllowedHook == Hook(2)

HasTree(t, m) == t[m] # 0

Outcome(c, branch) == [ctx |-> c, outcome |-> branch]

\* router.go:144-151; the new Writer has committed nothing, and what the
\* model recorded about the request before is dropped.
resetContext(c, req) ==
    [c EXCEPT !.Request = req, !.ctx = Background,
              !.Params = NoParams, !.index = -1, !.statusCode = StatusOK,
              !.values = NoValues, !.queryCache = "nil",
              !.wrote = 0, !.allow = {}, !.cors = FALSE, !.log = <<>>, !.seen = <<>>,
              !.entry = NoEntry, !.panicking = NoPanic, !.spawned = <<>>]

\* The context as it is when c.Next() starts the chain.
enter(c) ==
    [c EXCEPT !.entry = [Params |-> c.Params, index |-> c.index,
                         statusCode |-> c.statusCode,
                         queryCache |-> c.queryCache, values |-> c.values]]

\* c.Next() in ServeHTTP: a panic of the chain leaves ServeHTTP as well.
executed(c1, branch) ==
    Outcome(c1, IF c1.panicking = "crashed" THEN "crash"
                ELSE IF Panicking(c1) THEN "panic" ELSE branch)

handleOPTIONS(c, h, t, path) ==
    LET looked  == {m \in Methods : HasTree(t, m)}
        allowed == {m \in looked : treeValue(h, t, path, m).handler # NilHandler}
    IN  IF \E m \in looked : treeValue(h, t, path, m).panic # NoPanic
        THEN {Outcome(c, "panic")}
        ELSE IF allowed # {}
        THEN {Outcome(Status([c EXCEPT !.allow = allowed], StatusNoContent), "options")}
        ELSE {Outcome(Status(c, StatusNotFound), "options")}

\* ServeHTTP with the fallback hooks chained behind the router middleware.
serveThroughMiddleware(c, h, t, mw, gs, nf, mna, ho, method, path) ==
    LET v == treeValue(h, t, path, method)
    IN  IF v.panic # NoPanic
        THEN {Outcome(c, "panic")}
        ELSE IF v.handler # NilHandler
        THEN \* build the chain (middleware + handler) and execute it
             {executed(Next(enter([c EXCEPT !.Params = v.params,
                                            !.handlers = Append(mw, v.handler)]),
                            gs),
                       "route")}
        ELSE IF method = "OPTIONS" /\ ho
        THEN handleOPTIONS(c, h, t, path)
        ELSE LET others   == {m \in Methods \ {method} : HasTree(t, m)}
                 panics   == \E m \in others : treeValue(h, t, path, m).panic # NoPanic
                 exists   == \E m \in others : treeValue(h, t, path, m).handler # NilHandler
                 notAllowed ==
                     IF mna # NilHandler
                     THEN executed(Next(enter([c EXCEPT !.handlers = Append(mw, mna)]), gs), "405")
                     ELSE Outcome([c EXCEPT !.wrote = StatusMethodNotAllowed], "405")
                 notFound ==
                     IF nf # NilHandler
                     THEN executed(Next(enter([c EXCEPT !.handlers = Append(mw, nf)]), gs), "404")
                     ELSE Outcome([c EXCEPT !.wrote = StatusNotFound], "404")
             IN  (IF exists THEN {notAllowed} ELSE {})
                 \cup (IF panics THEN {Outcome(c, "panic")} ELSE {})
                 \cup (IF ~exists /\ ~panics THEN {notFound} ELSE {})

serve(c, h, t, mw, gs, nf, mna, ho, method, path) ==
    LET v == treeValue(h, t, path, method)
    IN  IF v.panic # NoPanic
        THEN {Outcome(c, "panic")}
        ELSE IF v.handler # NilHandler
        THEN \* build the chain (middleware + handler) and execute it
             {executed(Next(enter([c EXCEPT !.Params = v.params,
                                            !.handlers = Append(mw, v.handler)]),
                            gs),
                       "route")}
        ELSE IF method = "OPTIONS" /\ ho
        THEN handleOPTIONS(c, h, t, path)
        ELSE LET others   == {m \in Methods \ {method} : HasTree(t, m)}
                 panics   == \E m \in others : treeValue(h, t, path, m).panic # NoPanic
                 exists   == \E m \in others : treeValue(h, t, path, m).handler # NilHandler
                 notAllowed ==
                     IF mna # NilHandler
                     THEN executed(Next(enter([c EXCEPT !.handlers = <<mna>>]), gs), "405")
                     ELSE Outcome([c EXCEPT !.wrote = StatusMethodNotAllowed], "405")
                 notFound ==
                     IF nf # NilHandler
                     THEN executed(Next(enter([c EXCEPT !.handlers = <<nf>>]), gs), "404")
                     ELSE Outcome([c EXCEPT !.wrote = StatusNotFound], "404")
             IN  (IF exists THEN {notAllowed} ELSE {})
                 \cup (IF panics THEN {Outcome(c, "panic")} ELSE {})
                 \cup (IF ~exists /\ ~panics THEN {notFound} ELSE {})

dispatch(c0, h, t, mw, gs, nf, mna, ho, method, path) ==
    serve(resetContext(c0, method), h, t, mw, gs, nf, mna, ho, method, path)

Response(method, path, o) ==
    [method |-> method, path |-> path, outcome |-> o.outcome,
     status |-> o.ctx.wrote, statusCode |-> o.ctx.statusCode,
     allow |-> o.ctx.allow, cors |-> o.ctx.cors, params |-> o.ctx.Params, log |-> o.ctx.log,
     index |-> o.ctx.index, handlers |-> o.ctx.handlers,
     seen |-> o.ctx.seen, entry |-> o.ctx.entry, ctx |-> o.ctx.ctx]

(***************************************************************************)
(* Router.Use, the fallback hooks and the HandleOPTIONS flag.  b is what   *)
(* the new middleware does when invoked.                                   *)
(***************************************************************************)
Behaviours == {"next", "abort", "skip"}

Middlewares ==
    {middleware[i] : i \in DOMAIN middleware}
    \cup UNION {{groups[g].middleware[i] : i \in DOMAIN groups[g].middleware}
                : g \in DOMAIN groups}

\* The middleware appended to list, which belongs to owner, one per behaviour.
NewMiddleware(owner, list, bs) ==
    [i \in DOMAIN bs |-> Middleware(owner, Len(list) + i, bs[i])]

Configuring == fatal = NoPanic /\ server = "nil"

Use(b) ==
    /\ Configuring
    /\ Cardinality(Middlewares) < MaxMiddleware
    /\ middleware' = middleware \o NewMiddleware(0, middleware, <<b>>)
    /\ UNCHANGED <<limiting, inflight, heap, trees, routes, fatal, groups, NotFound,
                   MethodNotAllowed, HandleOPTIONS, server, pool, found, resp>>

SetNotFound ==
    /\ Configuring
    /\ NotFound = NilHandler
    /\ NotFound' = NotFoundHook
    /\ UNCHANGED <<limiting, inflight, heap, trees, routes, fatal, middleware, groups,
                   MethodNotAllowed, HandleOPTIONS, server, pool, found, resp>>

SetMethodNotAllowed ==
    /\ Configuring
    /\ MethodNotAllowed = NilHandler
    /\ MethodNotAllowed' = MethodNotAllowedHook
    /\ UNCHANGED <<limiting, inflight, heap, trees, routes, fatal, middleware, groups,
                   NotFound, HandleOPTIONS, server, pool, found, resp>>

SetHandleOPTIONS ==
    /\ Configuring
    /\ HandleOPTIONS
    /\ HandleOPTIONS' = FALSE
    /\ UNCHANGED <<limiting, inflight, heap, trees, routes, fatal, middleware, groups,
                   NotFound, MethodNotAllowed, server, pool, found, resp>>

(***************************************************************************)
(* Route groups: Router.Group, RouterGroup.Group, RouterGroup.Use and      *)
(* RouterGroup.handle.  bs stands for the variadic middleware argument:    *)
(* the behaviours of the middleware given, none or one.                    *)
(***************************************************************************)
GroupPrefix == <<"/", "g">>

MwArgs == {<<>>} \cup {<<b>> : b \in Behaviours}

FitsMiddleware(bs) == Cardinality(Middlewares) + Len(bs) <= MaxMiddleware

Group(prefix, bs) ==
    /\ Configuring
    /\ Len(groups) < MaxGroups
    /\ FitsMiddleware(bs)
    /\ groups' = Append(groups,
                        [prefix |-> prefix, parent |-> 0,
                         middleware |-> NewMiddleware(Len(groups) + 1, <<>>, bs)])
    /\ UNCHANGED <<limiting, inflight, heap, trees, routes, fatal, middleware, NotFound,
                   MethodNotAllowed, HandleOPTIONS, server, pool, found, resp>>

GroupGroup(g, prefix, bs) ==
    /\ Configuring
    /\ Len(groups) < MaxGroups
    /\ FitsMiddleware(bs)
    /\ LET inherited == combineMiddleware(groups, g)
       IN  groups' = Append(groups,
                            [prefix |-> groups[g].prefix \o prefix,
                             parent |-> g,
                             middleware |-> inherited \o
                                 NewMiddleware(Len(groups) + 1, inherited, bs)])
    /\ UNCHANGED <<limiting, inflight, heap, trees, routes, fatal, middleware, NotFound,
                   MethodNotAllowed, HandleOPTIONS, server, pool, found, resp>>

GroupUse(g, b) ==
    /\ Configuring
    /\ FitsMiddleware(<<b>>)
    /\ groups' = [groups EXCEPT ![g].middleware =
                      @ \o NewMiddleware(g, @, <<b>>)]
    /\ UNCHANGED <<limiting, inflight, heap, trees, routes, fatal, middleware, NotFound,
                   MethodNotAllowed, HandleOPTIONS, server, pool, found, resp>>

GroupHandle(g, method, path) ==
    /\ Configuring
    /\ Len(routes) < MaxRoutes
    /\ Register(method, groups[g].prefix \o path, GroupClosure(g, Len(routes) + 1))
    /\ UNCHANGED <<limiting, inflight, middleware, groups, NotFound, MethodNotAllowed,
                   HandleOPTIONS, server, pool, found, resp>>

(***************************************************************************)
(* Router.ServeHTTP.  sync.Pool.Get hands out a pooled context or, when it *)
(* finds none (it may also ignore the pooled ones), the result of the      *)
(* pool's New, which is newContext(nil, nil).  A panic leaves ServeHTTP    *)
(* before pool.Put; the server recovers it and goes on serving.            *)
(***************************************************************************)
PanicResp(method, path) ==
    [NoResp EXCEPT !.method = method, !.path = path, !.outcome = "panic"]

Served(method, path, c, rest) ==
    \E o \in dispatch(c, heap, trees, middleware, groups, NotFound,
                      MethodNotAllowed, HandleOPTIONS, method, path) :
       /\ resp' = Response(method, path, o)
       /\ pool' = IF o.outcome = "panic" THEN rest ELSE rest \cup {o.ctx}

ServeHTTP(method, path) ==
    /\ server = "running"
    /\ \E pooled \in BOOLEAN :
          IF pooled
          THEN \E c \in pool : Served(method, path, c, pool \ {c})
          ELSE LET fresh == newContext("nil")
               IN  IF fresh.panic # NoPanic
                   THEN resp' = PanicResp(method, path) /\ pool' = pool
                   ELSE Served(method, path, fresh.ctx, pool)
    /\ UNCHANGED <<limiting, inflight, heap, trees, routes, fatal, middleware, groups, NotFound,
                   MethodNotAllowed, HandleOPTIONS, server, found>>

(***************************************************************************)
(* The dispatch of ServeHTTP (router.go:145-210) applied to a context that *)
(* newContext built for a live request: the request handling without the   *)
(* pool.                                                                   *)
(***************************************************************************)
Dispatch(method, path) ==
    /\ server = "running"
    /\ \E o \in dispatch(newContext("request").ctx, heap, trees, middleware,
                         groups, NotFound, MethodNotAllowed, HandleOPTIONS,
                         method, path) :
          resp' = Response(method, path, o)
    /\ UNCHANGED <<limiting, inflight, heap, trees, routes, fatal, middleware, groups, NotFound,
                   MethodNotAllowed, HandleOPTIONS, server, pool, found>>

(***************************************************************************)
(* The registrations and the tree lookups: routes on the router and        *)
(* through a group, then Run and lookups.                                  *)
(***************************************************************************)
\* Paths that do not begin with '/', and the groups the routes of SpecTree
\* are registered through: one prefix begins with '/', the other does not.
BadPaths == {<<>>, <<"a">>}

TreePrefixes == {GroupPrefix, <<"g">>}

\* Patterns with a wildcard that is not a whole segment, or with a
\* catch-all that is not the last segment or does not follow a '/', and a
\* pattern that continues past its parameter.
WildcardPatterns ==
    { <<"/", "a", "/", ":", "x", "/", "b">>,
      <<"/", "a", "/", ":", "x", ":", "y">>,
      <<"/", "a", "/", ":", "x", "*", "y">>,
      <<"/", "a", "/", "b", ":", "x">>,
      <<"/", "f", "/", "*", "x", "/", "b">>,
      <<"/", "a", "*", "x">> }

\* Request paths with an empty segment: in the middle and at the end.
EmptySegmentPaths == { <<"/", "a", "/", "/", "b">>, <<"/", "a", "/">> }

NextTree ==
    \/ \E m \in RouteMethods, p \in Patterns :
          (m = "GET" \/ p \in PostPatterns) /\ Handle(m, p)
    \/ \E p \in BadPaths \cup WildcardPatterns : Handle("GET", p)
    \/ \E prefix \in TreePrefixes : groups = <<>> /\ Group(prefix, <<>>)
    \/ \E g \in DOMAIN groups, p \in {<<"a">>, <<"/", "a">>} : GroupHandle(g, "GET", p)
    \/ \E p \in PostPatterns : RouterAny(p)
    \/ Run
    \/ \E m \in RouteMethods, p \in RequestPaths \cup EmptySegmentPaths : Lookup(m, p)

SpecTree == Init /\ [][NextTree]_vars

(***************************************************************************)
(* The program: routes, middleware, hooks, then Run and requests.          *)
(***************************************************************************)
PathX == <<"/", "x">>

PathY == <<"/", "y">>

ServePaths == {PathX, PathY}

Next_ ==
    \/ \E m \in Methods : Handle(m, PathX)
    \/ \E b \in Behaviours : Use(b)
    \/ SetNotFound
    \/ SetMethodNotAllowed
    \/ SetHandleOPTIONS
    \/ Run
    \/ \E m \in Methods, p \in ServePaths : ServeHTTP(m, p)

Spec == Init /\ [][Next_]_vars

(***************************************************************************)
(* The handler chain: router middleware, groups and their routes, and the  *)
(* dispatch of requests on a live context.  Each path is registered once   *)
(* here; registering a path again is the subject of SpecTree.              *)
(***************************************************************************)
PathGX == GroupPrefix \o PathX

PathGGX == GroupPrefix \o GroupPrefix \o PathX

ChainPaths == {PathX, PathGX, PathGGX}

Unregistered(path) == \A i \in DOMAIN routes : routes[i].path # path

\* Registrations of a handler whose body does b.
HandleWith(method, path, b) ==
    /\ Configuring
    /\ Len(routes) < MaxRoutes
    /\ Register(method, path, HandlerFunc(RouteHandler(Len(routes) + 1), b))
    /\ UNCHANGED <<limiting, inflight, middleware, groups, NotFound, MethodNotAllowed,
                   HandleOPTIONS, server, pool, found, resp>>

GroupHandleWith(g, method, path, b) ==
    /\ Configuring
    /\ Len(routes) < MaxRoutes
    /\ Register(method, groups[g].prefix \o path,
                HandlerFunc(GroupClosure(g, Len(routes) + 1), b))
    /\ UNCHANGED <<limiting, inflight, middleware, groups, NotFound, MethodNotAllowed,
                   HandleOPTIONS, server, pool, found, resp>>

NextChain ==
    \/ Unregistered(PathX) /\ Handle("GET", PathX)
    \/ \E b \in Behaviours : Use(b)
    \/ \E bs \in MwArgs : Group(GroupPrefix, bs)
    \/ \E g \in DOMAIN groups, bs \in MwArgs : GroupGroup(g, GroupPrefix, bs)
    \/ \E g \in DOMAIN groups, b \in Behaviours : GroupUse(g, b)
    \/ \E g \in DOMAIN groups :
          Unregistered(groups[g].prefix \o PathX) /\ GroupHandle(g, "GET", PathX)
    \/ \E g \in DOMAIN groups :
          /\ Unregistered(groups[g].prefix \o PathX)
          /\ GroupHandleWith(g, "GET", PathX, "abort")
    \/ Run
    \/ \E p \in ChainPaths : Dispatch("GET", p)

SpecChain == Init /\ [][NextChain]_vars

(***************************************************************************)
(* Requests served from a pool that hands out live contexts: a pooled one, *)
(* or, when the pool is empty, one that newContext built for a live        *)
(* request.  Routes are registered with handlers of several bodies behind  *)
(* Logger, Recovery and a middleware that uses Set and Get; a request      *)
(* takes one of the four ways through ServeHTTP.                           *)
(***************************************************************************)
Bodies == {"none", "set", "twice", "redirect", "panic", "writepanic"}

ServeBehaviours == {"logger", "recovery", "set"}

Serve(method, path) ==
    /\ server = "running"
    /\ \E c \in (IF pool = {} THEN {newContext("request").ctx} ELSE pool) :
          Served(method, path, c, pool \ {c})
    /\ UNCHANGED <<limiting, inflight, heap, trees, routes, fatal, middleware, groups, NotFound,
                   MethodNotAllowed, HandleOPTIONS, server, found>>

NextServe ==
    \/ \E b \in Bodies : Unregistered(PathX) /\ HandleWith("GET", PathX, b)
    \/ \E b \in ServeBehaviours : Use(b)
    \/ groups = <<>> /\ Group(GroupPrefix, <<>>)
    \/ \E g \in DOMAIN groups, b \in ServeBehaviours : GroupUse(g, b)
    \/ \E g \in DOMAIN groups, b \in Bodies :
          Unregistered(groups[g].prefix \o PathX) /\ GroupHandleWith(g, "GET", PathX, b)
    \/ Run
    \/ \E m \in Methods, p \in {PathX, PathGX} : Serve(m, p)

SpecServe == Init /\ [][NextServe]_vars

(***************************************************************************)
(* The ways through ServeHTTP on pooled contexts: routes under any method,  *)
(* on the router and in a group, the two fallback hooks, the HandleOPTIONS *)
(* flag, and a router or group middleware that is CORS or simply calls     *)
(* Next; requests of every method for a registered and an unknown path.    *)
(***************************************************************************)
FallbackBehaviours == {"next", "cors"}

FallbackPaths == {PathX, PathY, PathGX}

NextFallback ==
    \/ \E m \in Methods : Handle(m, PathX)
    \/ middleware = <<>> /\ \E b \in FallbackBehaviours : Use(b)
    \/ SetNotFound
    \/ SetMethodNotAllowed
    \/ SetHandleOPTIONS
    \/ groups = <<>> /\ \E bs \in {<<>>, <<"cors">>} : Group(GroupPrefix, bs)
    \/ \E g \in DOMAIN groups : GroupHandle(g, "GET", PathX)
    \/ Run
    \/ \E m \in Methods, p \in FallbackPaths : Serve(m, p)

SpecFallback == Init /\ [][NextFallback]_vars

(***************************************************************************)
(* Wildcard-free routes: distinct static paths registered in any order,    *)
(* with the edge splits every order makes, then lookups of the registered  *)
(* paths, of their proper prefixes and of their extensions.                *)
(***************************************************************************)
StaticPaths ==
    { <<"/">>,
      <<"/", "a">>,
      <<"/", "a", "b">>,
      <<"/", "a", "c">>,
      <<"/", "a", "b", "c">>,
      <<"/", "a", "/">>,
      <<"/", "a", "/", "b">>,
      <<"/", "b">> }

StaticLookups ==
    StaticPaths
    \cup { <<"/", "a", "b", "d">>,
           <<"/", "a", "b", "c", "d">>,
           <<"/", "a", "/", "b", "/">>,
           <<"/", "c">> }

NextStatic ==
    \/ \E p \in StaticPaths : Unregistered(p) /\ Handle("GET", p)
    \/ Run
    \/ \E p \in StaticLookups : Lookup("GET", p)

SpecStatic == Init /\ [][NextStatic]_vars

(***************************************************************************)
(* Requests whose context is cancelled while they are handled: routes that *)
(* answer, poll the context, or derive a context with a timeout or a       *)
(* cancel callback, behind middleware that calls Next and may poll.        *)
(***************************************************************************)
MaxCancelAt == 3

CancelBodies == {"none", "poll", "derive", "slow"}

CancelBehaviours == {"next", "poll"}

RequestContexts ==
    {Background} \cup {RequestContext(TRUE, at) : at \in 0..MaxCancelAt}

\* ServeHTTP for a request whose Context() is rc.
DispatchWith(method, path, rc) ==
    /\ server = "running"
    /\ \E o \in serve([resetContext(newContext("request").ctx, method)
                          EXCEPT !.ctx = rc],
                      heap, trees, middleware, groups, NotFound,
                      MethodNotAllowed, HandleOPTIONS, method, path) :
          resp' = Response(method, path, o)
    /\ UNCHANGED <<limiting, inflight, heap, trees, routes, fatal, middleware, groups, NotFound,
                   MethodNotAllowed, HandleOPTIONS, server, pool, found>>

NextCancel ==
    \/ \E b \in CancelBodies : Unregistered(PathX) /\ HandleWith("GET", PathX, b)
    \/ \E b \in CancelBehaviours : Use(b)
    \/ Run
    \/ \E p \in ServePaths, rc \in RequestContexts : DispatchWith("GET", p, rc)

SpecCancel == Init /\ [][NextCancel]_vars

(***************************************************************************)
(* Concurrent requests.  Each ServeHTTP call runs in a goroutine of its    *)
(* own and goes through three steps: Acquire (pool.Get and the reset,      *)
(* router.go:144-151), Execute (the lookup and the chain, the response)    *)
(* and Put (pool.Put); a call that a panic ends never reaches Put.  The    *)
(* pool hands out a pooled instance or, when it has none, a Context that   *)
(* newContext built for a live request.  A Timeout whose timer fires       *)
(* returns while the goroutine it started is still inside the handler      *)
(* below; Finish is that handler returning and the goroutine's c.Next()    *)
(* going on, on the instance as it is by then.                             *)
(***************************************************************************)
PathParam == <<"/", "a", "/", ":", "x">>

PoolBodies == {"none", "set", "panic"}

PoolBehaviours == {"timeout", "set"}

PoolRequests ==
    { [method |-> "GET", path |-> <<"/", "a", "/", "5">>],
      [method |-> "GET", path |-> <<"/", "a", "/", "b">>],
      [method |-> "POST", path |-> <<"/", "a", "/", "5">>],
      [method |-> "OPTIONS", path |-> <<"/", "a", "/", "5">>],
      [method |-> "GET", path |-> PathX] }

Acquire(i, method, path) ==
    /\ server = "running"
    /\ requests[i].pc = "idle"
    /\ \E c \in (IF free # {} THEN free
                 ELSE IF Len(contexts) < MaxContexts THEN {Len(contexts) + 1}
                 ELSE {}) :
          /\ contexts' = IF c \in DOMAIN contexts
                         THEN [contexts EXCEPT ![c] = resetContext(@, method)]
                         ELSE Append(contexts,
                                     resetContext(newContext("request").ctx, method))
          /\ free' = free \ {c}
          /\ requests' = [requests EXCEPT ![i] =
                              [pc |-> "acquired", method |-> method,
                               path |-> path, c |-> c]]
    /\ UNCHANGED <<limiting, router, server, pool, found, resp, goroutines>>

Spawned(c, o) == {[c |-> c, handler |-> o.ctx.spawned[k]] : k \in DOMAIN o.ctx.spawned}

\* Execute with a lookup that counts its visits in the priority of the root.
ExecutePromoting(i) ==
    /\ server = "running"
    /\ requests[i].pc = "acquired"
    /\ \E timer \in {"done", "fired"} :
       \E o \in serve([contexts[requests[i].c] EXCEPT !.timer = timer],
                      heap, trees, middleware, groups, NotFound,
                      MethodNotAllowed, HandleOPTIONS,
                      requests[i].method, requests[i].path) :
          /\ contexts' = [contexts EXCEPT ![requests[i].c] =
                              [o.ctx EXCEPT !.spawned = <<>>]]
          /\ goroutines' = goroutines \cup Spawned(requests[i].c, o)
          /\ resp' = Response(requests[i].method, requests[i].path, o)
          /\ requests' = [requests EXCEPT ![i] =
                              IF o.outcome \in {"panic", "crash"}
                              THEN NoRequest
                              ELSE [@ EXCEPT !.pc = "executed"]]
          /\ server' = IF o.outcome = "crash" THEN "crashed" ELSE server
    /\ heap' = IF trees[requests[i].method] = 0 THEN heap
               ELSE [heap EXCEPT ![trees[requests[i].method]].priority = @ + 1]
    /\ UNCHANGED <<limiting, trees, routes, fatal, middleware, groups, NotFound,
                   MethodNotAllowed, HandleOPTIONS, pool, found, free>>

Execute(i) ==
    /\ server = "running"
    /\ requests[i].pc = "acquired"
    /\ \E timer \in {"done", "fired"} :
       \E o \in serve([contexts[requests[i].c] EXCEPT !.timer = timer],
                      heap, trees, middleware, groups, NotFound,
                      MethodNotAllowed, HandleOPTIONS,
                      requests[i].method, requests[i].path) :
          /\ contexts' = [contexts EXCEPT ![requests[i].c] =
                              [o.ctx EXCEPT !.spawned = <<>>]]
          /\ goroutines' = goroutines \cup Spawned(requests[i].c, o)
          /\ resp' = Response(requests[i].method, requests[i].path, o)
          /\ requests' = [requests EXCEPT ![i] =
                              IF o.outcome \in {"panic", "crash"}
                              THEN NoRequest
                              ELSE [@ EXCEPT !.pc = "executed"]]
          /\ server' = IF o.outcome = "crash" THEN "crashed" ELSE server
    /\ UNCHANGED <<limiting, router, pool, found, free>>

Put(i) ==
    /\ server = "running"
    /\ requests[i].pc = "executed"
    /\ free' = free \cup {requests[i].c}
    /\ requests' = [requests EXCEPT ![i] = NoRequest]
    /\ UNCHANGED <<limiting, router, server, pool, found, resp, contexts, goroutines>>

Finish(g) ==
    /\ server = "running"
    /\ g \in goroutines
    /\ \E r \in {resume(invoke(g.handler, [contexts[g.c] EXCEPT !.timer = "done"],
                               groups),
                        groups)} :
          /\ contexts' = [contexts EXCEPT ![g.c] = [r EXCEPT !.panicking = NoPanic]]
          /\ server' = IF Panicking(r) THEN "crashed" ELSE server
    /\ goroutines' = goroutines \ {g}
    /\ UNCHANGED <<limiting, router, pool, found, resp, free, requests>>

NextPool ==
    \/ \E b \in PoolBodies : Unregistered(PathParam) /\ HandleWith("GET", PathParam, b)
    \/ \E b \in PoolBehaviours : middleware = <<>> /\ Use(b)
    \/ Run
    \/ \E i \in DOMAIN requests, q \in PoolRequests :
          (\A j \in 1..(i - 1) : requests[j].pc # "idle") /\ Acquire(i, q.method, q.path)
    \/ \E i \in DOMAIN requests : Execute(i)
    \/ \E i \in DOMAIN requests : Put(i)
    \/ \E g \in goroutines : Finish(g)

SpecPool == Init /\ [][NextPool]_vars

(***************************************************************************)
(* SpecLimiter: requests of a few clients pass concurrently through the    *)
(* handler that RateLimiter(requestsPerSecond) returned.  The closure's    *)
(* map clients holds pointers: cells is the heap of the client structs and *)
(* clients[ip] an index into it.  Neither the map nor the structs are      *)
(* guarded by a lock, so every read and every write of them is a step of   *)
(* its own and the steps of different requests interleave freely; cl.count++*)
(* is a load and a store.  The clock counts half seconds.  window records  *)
(* the lastRequest of the window a request was counted in.                 *)
(***************************************************************************)
Second == 2

ClientIPs == {"ip1", "ip2"}

RateArgs == 0..MaxRate

At_(i, pc) == limiter = "made" /\ arrivals[i].pc = pc

Goto(i, pc) == [arrivals EXCEPT ![i].pc = pc]

\* RateLimiter(n): clients := make(map[string]*client).
RateLimiter(n) ==
    /\ limiter = "nil"
    /\ limiter' = "made"
    /\ requestsPerSecond' = n
    /\ clients' = <<>>
    /\ UNCHANGED <<router, inflight, server, pool, found, resp, cells, clock, arrivals>>

\* Time passes.
Tick ==
    /\ limiter = "made"
    /\ clock < MaxTime
    /\ clock' = clock + 1
    /\ UNCHANGED <<router, inflight, server, pool, found, resp, limiter,
                   requestsPerSecond, clients, cells, arrivals>>

LimiterStep(as, cs, cl) ==
    /\ arrivals' = as
    /\ clients' = cs
    /\ cells' = cl
    /\ UNCHANGED <<router, inflight, server, pool, found, resp, limiter,
                   requestsPerSecond, clock>>

\* ip := c.ClientIP(); now := time.Now()
Enter(i, ip) ==
    /\ At_(i, "idle")
    /\ \A j \in 1..(i - 1) : arrivals[j].pc # "idle"
    /\ LimiterStep([arrivals EXCEPT ![i] = [NoArrival EXCEPT !.pc = "lookup", !.ip = ip,
                                                             !.now = clock]],
                   clients, cells)

\* cl, exists := clients[ip]
Find(i) ==
    /\ At_(i, "lookup")
    /\ LimiterStep(IF arrivals[i].ip \in DOMAIN clients
                   THEN [arrivals EXCEPT ![i].pc = "compare", ![i].cl = clients[arrivals[i].ip]]
                   ELSE Goto(i, "insert"),
                   clients, cells)

\* clients[ip] = &client{lastRequest: now, count: 1}, then c.Next()
Insert(i) ==
    /\ At_(i, "insert")
    /\ LimiterStep([arrivals EXCEPT ![i].pc = "next", ![i].cl = Len(cells) + 1,
                                    ![i].window = arrivals[i].now],
                   (arrivals[i].ip :> (Len(cells) + 1)) @@ clients,
                   Append(cells, [lastRequest |-> arrivals[i].now, count |-> 1]))

\* if now.Sub(cl.lastRequest) < time.Second
Compare(i) ==
    /\ At_(i, "compare")
    /\ LimiterStep(IF arrivals[i].now - cells[arrivals[i].cl].lastRequest < Second
                   THEN [arrivals EXCEPT ![i].pc = "load",
                                         ![i].window = cells[arrivals[i].cl].lastRequest]
                   ELSE Goto(i, "reset"),
                   clients, cells)

\* cl.count++: the load
Load(i) ==
    /\ At_(i, "load")
    /\ LimiterStep([arrivals EXCEPT ![i].pc = "store", ![i].count = cells[arrivals[i].cl].count],
                   clients, cells)

\* cl.count++: the store
Store(i) ==
    /\ At_(i, "store")
    /\ LimiterStep([arrivals EXCEPT ![i].pc = "check", ![i].count = arrivals[i].count + 1],
                   clients,
                   [cells EXCEPT ![arrivals[i].cl].count = arrivals[i].count + 1])

\* if cl.count > requestsPerSecond { c.AbortWithJSON(429, ...); return }, else
\* c.Next().  The comparison uses the value just stored or reads the field
\* again.
Check(i) ==
    /\ At_(i, "check")
    /\ \E count \in {arrivals[i].count, cells[arrivals[i].cl].count} :
          LimiterStep(Goto(i, IF count > requestsPerSecond THEN "abort" ELSE "next"),
                      clients, cells)

\* cl.count = 1; cl.lastRequest = now, then c.Next()
Reset(i) ==
    /\ At_(i, "reset")
    /\ LimiterStep([arrivals EXCEPT ![i].pc = "next", ![i].window = arrivals[i].now],
                   clients,
                   [cells EXCEPT ![arrivals[i].cl] = [lastRequest |-> arrivals[i].now, count |-> 1]])

NextLimiter ==
    \/ \E n \in RateArgs : RateLimiter(n)
    \/ Tick
    \/ \E i \in DOMAIN arrivals, ip \in ClientIPs : Enter(i, ip)
    \/ \E i \in DOMAIN arrivals : Find(i)
    \/ \E i \in DOMAIN arrivals : Insert(i)
    \/ \E i \in DOMAIN arrivals : Compare(i)
    \/ \E i \in DOMAIN arrivals : Load(i)
    \/ \E i \in DOMAIN arrivals : Store(i)
    \/ \E i \in DOMAIN arrivals : Check(i)
    \/ \E i \in DOMAIN arrivals : Reset(i)

SpecLimiter == Init /\ [][NextLimiter]_vars

(***************************************************************************)
(* Vocabulary of the properties: what a pattern matches, the names of its  *)
(* wildcards, its segments.                                                *)
(***************************************************************************)
RECURSIVE Matches(_, _)
Matches(pat, p) ==
    IF pat = <<>> THEN p = <<>>
    ELSE IF pat[1] = "*" THEN TRUE
    ELSE IF pat[1] = ":"
    THEN LET e == ParamEnd(p)
         IN  e > 0 /\ Matches(From(pat, ParamEnd(pat)), From(p, e))
    ELSE p # <<>> /\ p[1] = pat[1] /\ Matches(Tail(pat), Tail(p))

RECURSIVE Segments(_)
Segments(p) ==
    IF p = <<>> THEN <<>>
    ELSE LET q == Tail(p)   \* p starts with '/'
             e == ParamEnd(q)
         IN  <<Upto(q, e)>> \o Segments(From(q, e))

WildcardNames(pat) ==
    LET segs == Segments(pat)
    IN  {Tail(segs[k]) : k \in {j \in DOMAIN segs : segs[j] # <<>> /\ IsWild(segs[j][1])}}

\* p and q part at a segment where one of them has a wildcard and the other
\* a different, non-empty segment.
Conflict(p, q) ==
    LET sp == Segments(p)
        sq == Segments(q)
    IN  \E k \in (DOMAIN sp) \cap (DOMAIN sq) :
           /\ \A j \in 1..(k - 1) : sp[j] = sq[j]
           /\ sp[k] # sq[k]
           /\ sp[k] # <<>> /\ sq[k] # <<>>
           /\ IsWild(sp[k][1]) \/ IsWild(sq[k][1])

Registered == {k \in DOMAIN routes : routes[k].panic = NoPanic}

Str42 == <<"4", "2">>

Str7 == <<"7">>

Users42 == <<"/", "u", "s", "e", "r", "s", "/", "4", "2">>

Users42Posts7 == Users42 \o <<"/", "p", "o", "s", "t", "s", "/", "7">>

(***************************************************************************)
(* C1: on a fresh router GET /users/:id and GET /users/:id/posts/:postId,  *)
(* registered in either order, both succeed; GET /users/42/posts/7 then    *)
(* finds the handler of the second route with params {id: "42",            *)
(* postId: "7"}, and GET /users/42 the handler of the first with           *)
(* {id: "42"}.                                                             *)
(***************************************************************************)
C1_UsersRoutesResolve ==
    (/\ Len(routes) = 2
     /\ routes[1].method = "GET" /\ routes[2].method = "GET"
     /\ {routes[1].path, routes[2].path} = {UsersId, UsersIdPosts})
    => /\ fatal = NoPanic
       /\ (found.method = "GET" /\ found.path = Users42Posts7)
          => \E k \in 1..2 :
                /\ routes[k].path = UsersIdPosts
                /\ found.handler = routes[k].handler
                /\ found.params = (<<"i", "d">> :> Str42
                                   @@ <<"p", "o", "s", "t", "I", "d">> :> Str7)
       /\ (found.method = "GET" /\ found.path = Users42)
          => \E k \in 1..2 :
                /\ routes[k].path = UsersId
                /\ found.handler = routes[k].handler
                /\ found.params = (<<"i", "d">> :> Str42)

(***************************************************************************)
(* C2: when every registration returned, a lookup of a path that matches   *)
(* a registered pattern of the method finds the handler registered for     *)
(* that pattern, with exactly the pattern's wildcard names as param keys.  *)
(***************************************************************************)
C2_RegisteredRoutesResolve ==
    (fatal = NoPanic /\ found.method # "")
    => \A k \in DOMAIN routes :
          (routes[k].method = found.method /\ Matches(routes[k].path, found.path))
          => /\ found.handler = routes[k].handler
             /\ DOMAIN found.params = WildcardNames(routes[k].path)

(***************************************************************************)
(* C3: a second registration of the same (method, path) fails fatally, and *)
(* a lookup never finds the handler of a repeated registration.            *)
(***************************************************************************)
C3_DuplicateRouteFails ==
    \A j, k \in DOMAIN routes :
       (j < k /\ routes[j].method = routes[k].method /\ routes[j].path = routes[k].path)
       => /\ routes[k].panic # NoPanic
          /\ found.handler # routes[k].handler

(***************************************************************************)
(* C4: within one method tree, a registration whose pattern has a wildcard *)
(* where a registered route has a different segment, or a literal where a  *)
(* registered route has a wildcard, fails fatally.                         *)
(***************************************************************************)
C4_WildcardConflictFails ==
    \A j, k \in DOMAIN routes :
       (j < k /\ routes[j].method = routes[k].method
              /\ Conflict(routes[j].path, routes[k].path))
       => routes[k].panic # NoPanic

(***************************************************************************)
(* Vocabulary of the chain properties.                                     *)
(***************************************************************************)
\* The handlers invoked for the last request, in the order of invocation.
Invoked ==
    LET starts == SelectSeq(resp.log, LAMBDA e : e.at \in {"pre", "run"})
    IN  [i \in DOMAIN starts |-> starts[i].h]

\* The handler the tree of the request's method holds for the request.
Matched == treeValue(heap, trees, resp.path, resp.method)

IsMatched == resp.method # "" /\ Matched.panic = NoPanic /\ Matched.handler # NilHandler

\* The chain the code runs for a matched handler, flattened: the router's
\* middleware, then what the matched handler runs.
EffectiveChain(handler) ==
    middleware \o (IF handler.kind = "group"
                   THEN Append(combineMiddleware(groups, handler.g),
                               HandlerFunc(RouteHandler(handler.id), handler.beh))
                   ELSE <<handler>>)

AllNext(chain) == \A i \in DOMAIN chain : chain[i].kind = "mw" => chain[i].beh = "next"

Reverse(seq) == [i \in DOMAIN seq |-> seq[Len(seq) + 1 - i]]

\* The log of a chain of middleware that all call Next, around handler.
Onion(mws, handler) ==
    [i \in DOMAIN mws |-> Event(mws[i], "pre")]
    \o <<Event(handler, "run")>>
    \o Reverse([i \in DOMAIN mws |-> Event(mws[i], "post")])

\* The middleware given to group g itself, and the chain of a group: the
\* middleware of its ancestors from the outermost down, then its own.
RECURSIVE GroupChain(_)
GroupChain(g) ==
    IF groups[g].parent = 0
    THEN groups[g].middleware
    ELSE LET outer == GroupChain(groups[g].parent)
         IN  outer \o SelectSeq(groups[g].middleware,
                                LAMBDA m : \A i \in DOMAIN outer : outer[i] # m)

(***************************************************************************)
(* C5: a request to a route of a nested group (a group created from a      *)
(* group created from the router), with all middleware calling Next, runs  *)
(* router middleware, outer group middleware, inner group middleware and   *)
(* the route handler in this order before Next and the middleware in the   *)
(* reverse order after it, each exactly once.                              *)
(***************************************************************************)
C5_NestedGroupOrder ==
    (/\ IsMatched
     /\ Matched.handler.kind = "group"
     /\ groups[Matched.handler.g].parent # 0
     /\ AllNext(middleware \o GroupChain(Matched.handler.g)))
    => resp.log = Onion(middleware \o GroupChain(Matched.handler.g),
                        RouteHandler(Matched.handler.id))

(***************************************************************************)
(* C6: with router middleware M1..Mn that all call Next, a request to a    *)
(* matched route runs M1..Mn before Next in registration order, then the   *)
(* route handler once, then Mn..M1 after Next, and nothing twice.          *)
(***************************************************************************)
C6_RouterMiddlewareOnion ==
    (IsMatched /\ Matched.handler.kind = "route" /\ AllNext(middleware))
    => resp.log = Onion(middleware, Matched.handler)

(***************************************************************************)
(* C7: when the handler at position k of the effective chain calls Abort,  *)
(* no handler after position k is invoked, the rest of handler k runs, and *)
(* the handlers before k that called Next run their code after Next; also  *)
(* when handler k is a middleware of the group chain inside the closure.   *)
(***************************************************************************)
C7_AbortStopsChain ==
    IsMatched =>
      LET chain == EffectiveChain(Matched.handler)
          log   == resp.log
      IN  /\ Len(Invoked) <= Len(chain)
          /\ \A k \in DOMAIN Invoked :
                /\ Invoked[k] = chain[k]
                /\ (chain[k].kind = "mw" /\ chain[k].beh = "abort")
                   => LET nexts == SelectSeq(SubSeq(chain, 1, k - 1),
                                             LAMBDA h : h.beh = "next")
                          tail  == <<Event(chain[k], "pre"), Event(chain[k], "post")>>
                                   \o Reverse([i \in DOMAIN nexts |->
                                                  Event(nexts[i], "post")])
                      IN  /\ Len(Invoked) = k
                          /\ Len(log) >= Len(tail)
                          /\ SubSeq(log, Len(log) - Len(tail) + 1, Len(log)) = tail

C7_Witness ==
    /\ IsMatched
    /\ Matched.handler.kind = "group"
    /\ \E k \in DOMAIN Invoked :
          /\ k > Len(middleware) + 1
          /\ Invoked[k].beh = "abort"
          /\ Invoked[1].beh = "next"
          /\ Len(Invoked) = k
          /\ resp.log[Len(resp.log)] = Event(Invoked[1], "post")

(***************************************************************************)
(* C8 as stated: a handler that returns without calling Next and without   *)
(* calling Abort ends the chain, no later handler is invoked.              *)
(***************************************************************************)
C8_ReturnWithoutNextTerminates ==
    IsMatched =>
      \A k \in DOMAIN Invoked :
         (Invoked[k].kind = "mw" /\ Invoked[k].beh = "skip") => Len(Invoked) = k

(***************************************************************************)
(* C8 amended: a handler that returns without calling Next and without     *)
(* calling Abort does not end the chain: the loop of the Next that invoked *)
(* it goes on to invoke the handler at the next position of the chain.     *)
(***************************************************************************)
C8_ReturnWithoutNextContinues ==
    IsMatched =>
      LET chain == EffectiveChain(Matched.handler)
      IN  \A k \in DOMAIN Invoked :
             (Invoked[k].kind = "mw" /\ Invoked[k].beh = "skip")
             => /\ k < Len(chain)
                /\ Len(Invoked) > k
                /\ Invoked[k + 1] = chain[k + 1]

C8_Witness ==
    /\ IsMatched
    /\ \E k \in DOMAIN Invoked :
          /\ Invoked[k].kind = "mw" /\ Invoked[k].beh = "skip"
          /\ Len(Invoked) = k + 1
          /\ Invoked[k + 1].kind = "route"
          /\ resp.log[Len(resp.log)] = Event(Invoked[k + 1], "run")

(***************************************************************************)
(* C9: a request whose method's tree yields no handler, and which the      *)
(* automatic OPTIONS handling does not take, gets the MethodNotAllowed     *)
(* hook (a plain 405 when unset) if the tree of another method has a       *)
(* handler for the path, and the NotFound hook (a plain 404 when unset)    *)
(* otherwise; no route handler runs.                                       *)
(***************************************************************************)
OtherMethodHasHandler ==
    \E m \in Methods \ {resp.method} :
       HasTree(trees, m) /\ treeValue(heap, trees, resp.path, m).handler # NilHandler

FallbackReply(outcome, hook, code) ==
    /\ resp.outcome = outcome
    /\ IF hook # NilHandler
       THEN resp.log = <<Event(hook, "run")>>
       ELSE resp.log = <<>> /\ resp.status = code

C9_FallbackHooks ==
    (/\ resp.method # ""
     /\ Matched = Miss
     /\ ~(resp.method = "OPTIONS" /\ HandleOPTIONS))
    => IF OtherMethodHasHandler
       THEN FallbackReply("405", MethodNotAllowed, StatusMethodNotAllowed)
       ELSE FallbackReply("404", NotFound, StatusNotFound)

(***************************************************************************)
(* C10: an OPTIONS request with HandleOPTIONS on and no OPTIONS route for  *)
(* the path is answered 204 with Allow listing exactly the methods whose   *)
(* tree has a handler for the path, and 404 when there is none.            *)
(***************************************************************************)
AllowedMethods ==
    {m \in Methods : HasTree(trees, m)
                     /\ treeValue(heap, trees, resp.path, m).handler # NilHandler}

C10_AutomaticOptions ==
    (resp.method = "OPTIONS" /\ HandleOPTIONS /\ Matched = Miss)
    => IF AllowedMethods # {}
       THEN resp.status = StatusNoContent /\ resp.allow = AllowedMethods
       ELSE resp.status = StatusNotFound

(***************************************************************************)
(* C11: routes that differ only by a trailing slash are distinct: a lookup *)
(* of p never finds the handler of a route that matches p + "/" and not p, *)
(* and a lookup of p + "/" never finds the handler of a route that matches *)
(* p and not p + "/".                                                      *)
(***************************************************************************)
Slash == <<"/">>

C11_TrailingSlashDistinct ==
    \A k \in Registered :
       (/\ found.handler # NilHandler
        /\ routes[k].method = found.method
        /\ routes[k].handler = found.handler
        /\ ~Matches(routes[k].path, found.path))
       => /\ ~Matches(routes[k].path, found.path \o Slash)
          /\ ~(/\ found.path # <<>>
               /\ found.path[Len(found.path)] = "/"
               /\ Matches(routes[k].path, Upto(found.path, Len(found.path) - 1)))

(***************************************************************************)
(* C12: for a registered route that ends in /*name, a lookup of a path     *)
(* that extends the route's literal prefix with '/' finds the route's      *)
(* handler, with name bound to the whole rest of the path from that '/'.   *)
(***************************************************************************)
\* The 0-based position of the '*' of a pattern, -1 when it has none.
StarOf(pat) == IndexOf(pat, "*")

C12_CatchAllBinds ==
    \A k \in Registered :
       LET pat  == routes[k].path
           star == StarOf(pat)
       IN  (/\ star > 0
            /\ found.method = routes[k].method
            /\ Len(found.path) >= star
            /\ Upto(found.path, star) = Upto(pat, star))
           => /\ found.handler = routes[k].handler
              /\ found.params = (From(pat, star + 1) :> From(found.path, star - 1))

(***************************************************************************)
(* C19: a registration under one method leaves every lookup under another  *)
(* method as it was, and while no route of its method is registered a      *)
(* registration fails or succeeds exactly as it does on an empty router:   *)
(* the same path, or another wildcard name at the same position, under     *)
(* another method never fails.                                             *)
(***************************************************************************)
NewRoutes == {k \in DOMAIN routes' : k > Len(routes)}

OnEmptyRouter(route) ==
    routerAddRoute(<<>>, [m \in Methods |-> 0], route.method, route.path, route.handler)

C19_MethodsIndependent ==
    [][/\ \A m \in RouteMethods :
            (NewRoutes # {} /\ \A k \in NewRoutes : routes'[k].method # m)
            => \A p \in RequestPaths :
                  treeValue(heap', trees', p, m) = treeValue(heap, trees, p, m)
       /\ \A k \in NewRoutes :
            (\A j \in DOMAIN routes : routes[j].method # routes'[k].method)
            => routes'[k].panic = OnEmptyRouter(routes'[k]).panic]_vars

C19_Witness ==
    \E j, k \in Registered :
       /\ j < k
       /\ routes[j].method = "GET"
       /\ routes[j].path = <<"/", "a", "/", ":", "x">>
       /\ routes[k].method = "POST"
       /\ routes[k].path = <<"/", "a", "/", ":", "y">>
       /\ found.method = "GET"
       /\ found.handler = routes[j].handler
       /\ found.params = (<<"x">> :> <<"5">>)

(***************************************************************************)
(* C17: the status a middleware reads after Next is the status the         *)
(* response committed: the code of the first header write, or 200 when the *)
(* chain wrote none.                                                       *)
(***************************************************************************)
Committed == IF resp.status = 0 THEN StatusOK ELSE resp.status

C17_StatusReadIsCommitted ==
    resp.outcome = "route"
    => \A i \in DOMAIN resp.seen :
          resp.seen[i].what = "status" => resp.seen[i].value = Committed

(***************************************************************************)
(* C18: what a handler stored with Set is what Get returns in the handlers *)
(* after it, and a later Set overrides an earlier one: every handler that  *)
(* reads the key sees the value of the handler that set it last before.    *)
(***************************************************************************)
KeyReads == SelectSeq(resp.seen, LAMBDA e : e.what = Key)

C18_SetSeenByLaterGet ==
    \A i \in DOMAIN KeyReads : i > 1 => KeyReads[i].value = KeyReads[i - 1].h

C18_Witness ==
    /\ resp.outcome = "route"
    /\ Len(KeyReads) = 3
    /\ KeyReads[1].h.kind = "mw"
    /\ KeyReads[2].h.kind = "mw"
    /\ KeyReads[3].h.kind = "route"
    /\ KeyReads[2].value = KeyReads[1].h
    /\ KeyReads[3].value = KeyReads[2].h

(***************************************************************************)
(* C20: when a handler behind Recovery panicked, the response carries 500, *)
(* the cursor is at or past the end of the chain the context holds and no  *)
(* handler was invoked after the recovery, and ServeHTTP put the context   *)
(* back into the pool; so too when a group closure had swapped the chain.  *)
(***************************************************************************)
Recovered == {i \in DOMAIN resp.log : resp.log[i].at = "recovered"}

C20_Responds500 == Recovered # {} => Committed = StatusInternalServerError

C20_CursorPastEnd ==
    Recovered # {}
    => /\ resp.index >= Len(resp.handlers)
       /\ \A i \in Recovered, j \in DOMAIN resp.log :
             j > i => resp.log[j].at \notin {"pre", "run"}

C20_ContextReturned ==
    Recovered # {}
    => /\ resp.outcome = "route"
       /\ \E c \in pool : c.log = resp.log /\ c.index = resp.index

C20_RecoveryAfterPanic ==
    /\ C20_Responds500
    /\ C20_CursorPastEnd
    /\ C20_ContextReturned

(***************************************************************************)
(* C13: when the chain of a request is started on a pooled context, the    *)
(* context holds that request's state only: Params are the parameters of   *)
(* the current match, the cursor is at -1, the status is 200, the query    *)
(* cache is empty and no key is set.                                       *)
(***************************************************************************)
C13_FirstHandlerSeesOwnState ==
    resp.entry # NoEntry
    => resp.entry = [Params |-> treeValue(heap, trees, resp.path, resp.method).params,
                     index |-> -1, statusCode |-> StatusOK,
                     queryCache |-> "nil", values |-> NoValues]

(***************************************************************************)
(* C14: a ServeHTTP call ends only by putting the context it holds into    *)
(* the pool, which did not hold it before, and it puts the context back    *)
(* only when no handler of the request's chain is still running.           *)
(***************************************************************************)
Exits(i) == requests[i].pc # "idle" /\ requests'[i].pc = "idle"

C14_ReleasedAtExit ==
    \A i \in DOMAIN requests :
       Exits(i) => requests[i].c \notin free /\ requests[i].c \in free'

C14_ChainFinishedAtRelease ==
    \A i \in DOMAIN requests :
       (Exits(i) /\ requests[i].c \in free')
       => \A g \in goroutines : g.c # requests[i].c

C14_ReleasedOnceOnExit ==
    [][C14_ReleasedAtExit /\ C14_ChainFinishedAtRelease]_vars

(***************************************************************************)
(* C15: no Context is held by two ServeHTTP calls at once or is in the     *)
(* pool while a call holds it, and nothing that an earlier request started *)
(* writes to a Context between its acquisition and its release by another  *)
(* request.  A call that has acquired a Context and not yet started its    *)
(* chain has started no goroutine: one that finishes on its Context        *)
(* belongs to an earlier request.                                          *)
(***************************************************************************)
InFlight == {i \in DOMAIN requests : requests[i].pc # "idle"}

C15_OneHolder ==
    /\ \A i, j \in InFlight : i # j => requests[i].c # requests[j].c
    /\ \A i \in InFlight : requests[i].c \notin free

C15_NoForeignWrite ==
    \A g \in goroutines \ goroutines', i \in InFlight :
       (requests[i].pc = "acquired" /\ requests[i].c = g.c)
       => contexts'[g.c] = contexts[g.c]

C15_ExclusiveOwnership ==
    [][C15_OneHolder /\ C15_NoForeignWrite]_vars

(***************************************************************************)
(* C16: once a middleware has returned, no goroutine it started is still   *)
(* running a handler on the context (every Execute step runs the chain to  *)
(* the return of its first middleware), and so no handler writes to a      *)
(* context that is back in the pool.                                       *)
(***************************************************************************)
C16_NoTouchAfterRelease ==
    \A g \in goroutines \ goroutines' :
       g.c \in free => contexts'[g.c] = contexts[g.c]

C16_BackgroundWorkJoined ==
    [][goroutines = {} /\ C16_NoTouchAfterRelease]_vars

(***************************************************************************)
(* C21: the chain of a group route is fixed when the route is registered:  *)
(* a Use on a group after that leaves the response of every request to a   *)
(* group route registered before as it was.                                *)
(***************************************************************************)
GroupRoutes == {k \in Registered : routes[k].handler.kind = "group"}

Reply(gs, k) ==
    dispatch(newContext("request").ctx, heap, trees, middleware, gs, NotFound,
             MethodNotAllowed, HandleOPTIONS, routes[k].method, routes[k].path)

C21_GroupChainFixedAtRegistration ==
    [][(routes' = routes /\ groups' # groups)
       => \A k \in GroupRoutes : Reply(groups', k) = Reply(groups, k)]_vars

(***************************************************************************)
(* C22: a registration of a path that does not begin with '/' (for a group *)
(* route, the group prefix followed by the path) ends in a panic that ends *)
(* the program, and leaves every tree as it was.                           *)
(***************************************************************************)
BeginsWithSlash(path) == path # <<>> /\ path[1] = "/"

C22_PathMustBeginWithSlash ==
    [][\A k \in NewRoutes :
          ~BeginsWithSlash(routes'[k].path)
          => /\ routes'[k].panic # NoPanic
             /\ fatal' # NoPanic
             /\ heap' = heap
             /\ trees' = trees]_vars

C22_Witness ==
    /\ Len(routes) >= 2
    /\ routes[1].panic = NoPanic
    /\ routes[Len(routes)].handler.kind = "group"
    /\ ~BeginsWithSlash(routes[Len(routes)].path)
    /\ fatal # NoPanic

(***************************************************************************)
(* C23: a registration fails for every path in which a wildcard is not the *)
(* whole segment: a ':' or '*' that does not directly follow a '/' (a      *)
(* second wildcard in the segment, or literal characters before it).       *)
(***************************************************************************)
Mixed(path) ==
    \E i \in DOMAIN path : IsWild(path[i]) /\ i > 1 /\ path[i - 1] # "/"

C23_WildcardIsWholeSegment ==
    \A k \in DOMAIN routes : Mixed(routes[k].path) => routes[k].panic # NoPanic

(***************************************************************************)
(* C24: a registered catch-all directly follows a '/' and is the last      *)
(* segment of its path; every other placement of a '*' fails.              *)
(***************************************************************************)
CatchAllWellPlaced(path) ==
    \A i \in DOMAIN path :
       path[i] = "*"
       => /\ i > 1
          /\ path[i - 1] = "/"
          /\ \A j \in DOMAIN path : j > i => path[j] # "/"

C24_CatchAllIsLastSegment ==
    \A k \in Registered : CatchAllWellPlaced(routes[k].path)

(***************************************************************************)
(* The nodes of the trees while no registration has failed.                *)
(***************************************************************************)
Nodes == IF fatal = NoPanic THEN DOMAIN heap ELSE {}

Child(n, i) == heap[heap[n].children[i]]

\* indices and children of n run in parallel: as many index bytes as
\* children, each the first byte of its child's path.
IndexedChildren(n) ==
    /\ Len(heap[n].indices) = Len(heap[n].children)
    /\ \A i \in DOMAIN heap[n].children :
          /\ Child(n, i).path # <<>>
          /\ Child(n, i).path[1] = heap[n].indices[i]

(***************************************************************************)
(* C26: after successful registrations every node has as many index bytes  *)
(* as children and indices[i] is the first byte of children[i].path, the   *)
(* nodes with a wildcard child and the param nodes with a child included.  *)
(***************************************************************************)
C26_IndicesParallelChildren == \A n \in Nodes : IndexedChildren(n)

(***************************************************************************)
(* C27: a node with wildChild set has exactly one child, a param or a      *)
(* catch-all node, and no index bytes.                                     *)
(***************************************************************************)
C27_WildChildIsOnlyChild ==
    \A n \in Nodes :
       heap[n].wildChild
       => /\ Len(heap[n].children) = 1
          /\ Child(n, 1).nType \in {"param", "catchAll"}
          /\ heap[n].indices = <<>>

(***************************************************************************)
(* C28: the children of every node are in non-increasing order of          *)
(* priority, and whenever a node's children are reordered its index bytes  *)
(* move with them: the byte that designated a child still designates it.   *)
(***************************************************************************)
SortedByPriority(n) ==
    \A i, j \in DOMAIN heap[n].children :
       i < j => Child(n, i).priority >= Child(n, j).priority

ChildSet(h, n) == {h[n].children[i] : i \in DOMAIN h[n].children}

Reordered(n) ==
    /\ heap'[n].children # heap[n].children
    /\ Len(heap'[n].children) = Len(heap[n].children)
    /\ ChildSet(heap', n) = ChildSet(heap, n)

\* Every index byte that stood at a child's position before the reordering
\* stands at that child's new position after it.
PermutedInLockStep(n) ==
    \A i \in DOMAIN heap[n].indices, j \in DOMAIN heap'[n].indices :
       /\ i \in DOMAIN heap[n].children
       /\ j \in DOMAIN heap'[n].children
       /\ heap'[n].children[j] = heap[n].children[i]
       => heap'[n].indices[j] = heap[n].indices[i]

C28_ChildrenSortedByPriority ==
    /\ [](\A n \in Nodes : SortedByPriority(n))
    /\ [][fatal' = NoPanic
          => \A n \in DOMAIN heap : Reordered(n) => PermutedInLockStep(n)]_vars

C28_Witness ==
    /\ fatal = NoPanic
    /\ routes # <<>>
    /\ routes[1].path = <<"/", "a">>
    /\ \E n \in DOMAIN heap :
          /\ heap[n].indices = <<"f", "a">>
          /\ Len(heap[n].children) = 2
          /\ Child(n, 1).path[1] = "f"
          /\ Child(n, 1).priority > Child(n, 2).priority

(***************************************************************************)
(* C29: a lookup returns a handler only for a path that matches, segment   *)
(* by segment, the pattern the handler was registered with; a path that    *)
(* ends at a parameter segment never finds the handler of a route that     *)
(* continues past that parameter.                                          *)
(***************************************************************************)
FoundRoutes ==
    {k \in Registered : routes[k].method = found.method /\ routes[k].handler = found.handler}

C29_HandlerOnlyForMatchingPath ==
    found.handler # NilHandler
    => \E k \in FoundRoutes : Matches(routes[k].path, found.path)

(***************************************************************************)
(* C25: among the requests of one client IP that the limiter counted in    *)
(* the same one-second window, at most requestsPerSecond are passed to the *)
(* next handler, however the requests interleave.                          *)
(***************************************************************************)
PassedIn(ip, window) ==
    {i \in DOMAIN arrivals :
        arrivals[i].pc = "next" /\ arrivals[i].ip = ip /\ arrivals[i].window = window}

C25_AtMostNPerWindow ==
    \A ip \in ClientIPs, window \in 0..MaxTime :
       Cardinality(PassedIn(ip, window)) <= requestsPerSecond

(***************************************************************************)
(* C30: a request served while the pool is empty gets a usable context     *)
(* from the pool's constructor and goes on to the route lookup: no request *)
(* ends in a panic of newContext.                                          *)
(***************************************************************************)
C30_PoolConstructsContext ==
    resp.method # "" => resp # PanicResp(resp.method, resp.path)

(***************************************************************************)
(* C31: a lookup binds a named parameter to the empty string only at the   *)
(* end of the path: a path with an empty segment in the middle is never    *)
(* found with an empty parameter; and the lookup of the path that stops at *)
(* the '/' before a final parameter is decided alike for every route that  *)
(* ends in a parameter.                                                    *)
(***************************************************************************)
EmptyParams == {name \in DOMAIN found.params : found.params[name] = <<>>}

EmptyInMiddle(path) ==
    \E i \in DOMAIN Segments(path) : i < Len(Segments(path)) /\ Segments(path)[i] = <<>>

\* The routes whose last segment is a parameter, and the path of such a
\* route up to the parameter.
ParamTails ==
    {k \in Registered :
        LET segs == Segments(routes[k].path)
        IN  segs # <<>> /\ segs[Len(segs)] # <<>> /\ segs[Len(segs)][1] = ":"}

BeforeParam(path) == Upto(path, Len(path) - Len(Segments(path)[Len(Segments(path))]))

MatchesEmpty(k) ==
    treeValue(heap, trees, BeforeParam(routes[k].path), routes[k].method).handler
       = routes[k].handler

C31_EmptyParamOnlyAtEnd ==
    /\ (found.handler # NilHandler /\ EmptyParams # {}) => ~EmptyInMiddle(found.path)
    /\ fatal = NoPanic => \A j, k \in ParamTails : MatchesEmpty(j) = MatchesEmpty(k)

(***************************************************************************)
(* C32: a group closure that returns normally leaves the context with the  *)
(* handler chain and the cursor it was entered with, also when a group     *)
(* middleware or the route handler called Abort; the outer chain then ends *)
(* and no handler is invoked after the group's chain.                      *)
(***************************************************************************)
\* The request was answered by a group route whose closure was invoked.
GroupServed ==
    /\ IsMatched
    /\ Matched.handler.kind = "group"
    /\ resp.outcome = "route"
    /\ Len(Invoked) > Len(middleware)

\* The context as the outer chain hands it to the closure of handler.
ClosureEntry(handler) ==
    [newContext("request").ctx EXCEPT !.handlers = Append(middleware, handler),
                                      !.index = Len(middleware)]

C32_ClosureRestoresChain ==
    GroupServed
    => /\ resp.handlers = Append(middleware, Matched.handler)
       /\ resp.index >= Len(resp.handlers)
       /\ Len(Invoked) <= Len(EffectiveChain(Matched.handler))
       /\ \A k \in DOMAIN Invoked : Invoked[k] = EffectiveChain(Matched.handler)[k]
       /\ \E c1 \in {invoke(Matched.handler, ClosureEntry(Matched.handler), groups)} :
             /\ c1.handlers = Append(middleware, Matched.handler)
             /\ c1.index = Len(middleware)
             /\ resume(c1, groups).log = c1.log

C32_Witness ==
    /\ GroupServed
    /\ middleware # <<>>
    /\ combineMiddleware(groups, Matched.handler.g) # <<>>
    /\ Matched.handler.beh = "abort"
    /\ Invoked[Len(Invoked)] = HandlerFunc(RouteHandler(Matched.handler.id), "abort")
    /\ resp.status = StatusUnauthorized

(***************************************************************************)
(* C33: a context in use holds no handler of an earlier request's chain:   *)
(* after a request that matched no route (automatic OPTIONS, 404, 405) the *)
(* context holds no chain at all, or the fallback hook alone.              *)
(***************************************************************************)
Unmatched == resp.method # "" /\ resp.outcome \in {"options", "404", "405"}

C33_ChainResetAtAcquisition ==
    Unmatched => resp.handlers \in {<<>>, <<NotFound>>, <<MethodNotAllowed>>}

(***************************************************************************)
(* Vocabulary of the fallback properties.                                  *)
(***************************************************************************)
\* What ServeHTTP puts in the chain on the branch the last request took.
FallbackChain ==
    CASE resp.outcome = "404" /\ NotFound # NilHandler -> <<NotFound>>
      [] resp.outcome = "405" /\ MethodNotAllowed # NilHandler -> <<MethodNotAllowed>>
      [] OTHER -> <<>>

IsCORS(handler) == handler.kind = "mw" /\ handler.beh = "cors"

BehindCORS(handler) ==
    \/ \E i \in DOMAIN middleware : IsCORS(middleware[i])
    \/ /\ handler.kind = "group"
       /\ \E i \in DOMAIN combineMiddleware(groups, handler.g) :
              IsCORS(combineMiddleware(groups, handler.g)[i])

\* The last request is a preflight to a path that has a route behind CORS,
\* registered for a method other than OPTIONS only.
Preflight ==
    /\ resp.method = "OPTIONS"
    /\ resp.outcome \notin {"none", "panic", "crash"}
    /\ treeValue(heap, trees, resp.path, "OPTIONS").handler = NilHandler
    /\ \E m \in Methods \ {"OPTIONS"} :
          /\ treeValue(heap, trees, resp.path, m).handler # NilHandler
          /\ BehindCORS(treeValue(heap, trees, resp.path, m).handler)

\* C35: with CORS installed and a route at p for a non-OPTIONS method only,
\* an OPTIONS preflight to p is handled by CORS: the response carries the
\* Access-Control-Allow-* headers and has status 204.
C35_PreflightHandledByCORS ==
    Preflight => resp.cors /\ resp.status = StatusNoContent

(***************************************************************************)
(* Vocabulary of the dispatch frame.                                       *)
(***************************************************************************)
\* A step of a request: it is acquired, executed or put back, or a lookup
\* is made.
RequestStep ==
    requests' # requests \/ contexts' # contexts \/ resp' # resp \/ found' # found

\* Two requests for the same method and path are in flight, the first
\* answered by a route, the second not yet executed.
ConcurrentRepeat ==
    \E i, j \in DOMAIN requests :
       /\ requests[i].pc = "executed"
       /\ requests[j].pc = "acquired"
       /\ requests[i].method = requests[j].method
       /\ requests[i].path = requests[j].path

\* C36: request dispatch never modifies a route tree: every field of every
\* node of every tree is the same after a step of a request as before, so
\* the lookup of any (method, path) gives the same handler and parameters
\* after it as before, also while other requests are in flight.
C36_DispatchLeavesTrees ==
    [][RequestStep
       => /\ heap' = heap
          /\ trees' = trees
          /\ \A q \in PoolRequests :
                treeValue(heap', trees', q.path, q.method)
                = treeValue(heap, trees, q.path, q.method)]_vars

C36_Witness ==
    /\ ConcurrentRepeat
    /\ resp.outcome = "route"
    /\ resp.params # NoParams
    /\ resp.params = Matched.params

(***************************************************************************)
(* Vocabulary of the static routes.                                        *)
(***************************************************************************)
\* The handler registered for path, NilHandler when path is not registered.
HandlerOf(path) ==
    IF \E k \in Registered : routes[k].path = path
    THEN routes[CHOOSE k \in Registered : routes[k].path = path].handler
    ELSE NilHandler

\* C37: for distinct wildcard-free paths registered in any order, getValue
\* returns the handler of p for each registered p and no handler for every
\* path that was not registered, proper prefixes and extensions of the
\* registered paths included.
C37_StaticLookupIgnoresOrder ==
    /\ fatal = NoPanic
    /\ \A k \in DOMAIN routes : routes[k].panic = NoPanic
    /\ \A p \in StaticLookups :
          /\ treeValue(heap, trees, p, "GET").panic = NoPanic
          /\ treeValue(heap, trees, p, "GET").handler = HandlerOf(p)
    /\ found.method # "" => found.handler = HandlerOf(found.path)

\* /ab, /ac and /a were registered in an order that splits the edge /ab
\* before /a gets its handler, and the prefix / was looked up and not found.
C37_Witness ==
    /\ Len(routes) = 3
    /\ routes[1].path = <<"/", "a", "b">>
    /\ routes[2].path = <<"/", "a", "c">>
    /\ routes[3].path = <<"/", "a">>
    /\ found.method = "GET"
    /\ found.path = <<"/">>
    /\ found.handler = NilHandler

(***************************************************************************)
(* Vocabulary of the cancellation properties.                              *)
(***************************************************************************)
\* What the last request gives when its context is never cancelled.
Uncancelled ==
    {Response(resp.method, resp.path, o) :
        o \in dispatch(newContext("request").ctx, heap, trees, middleware, groups,
                       NotFound, MethodNotAllowed, HandleOPTIONS,
                       resp.method, resp.path)}

\* What the handlers that polled the context of the last request saw.
Polled == SelectSeq(resp.seen, LAMBDA e : e.what = "Done")

\* C38: cancellation of the request's context while the request is handled
\* does not change which handlers are invoked: the chain runs through the
\* same handlers, with the same cursor, chain and status, as without the
\* cancellation, the same handlers poll, and only what they read differs.
C38_CancellationLeavesChain ==
    resp.method # ""
    => \A r0 \in Uncancelled :
          /\ resp.outcome = r0.outcome
          /\ resp.log = r0.log
          /\ resp.handlers = r0.handlers
          /\ resp.index = r0.index
          /\ resp.status = r0.status
          /\ Len(resp.seen) = Len(r0.seen)
          /\ \A k \in DOMAIN resp.seen :
                resp.seen[k].h = r0.seen[k].h /\ resp.seen[k].what = r0.seen[k].what

C38_Witness ==
    /\ resp.outcome = "route"
    /\ resp.ctx.cancels
    /\ resp.ctx.at = 1
    /\ Len(Invoked) = 3
    /\ Len(Polled) = 2
    /\ Polled[1].h.kind = "route" /\ Polled[1].value
    /\ Polled[2].h.kind = "mw" /\ Polled[2].value

\* The route that answered the last request derived a context and invoked
\* its cancel callback before it returned; the request was not cancelled.
DerivedAndCancelled ==
    /\ IsMatched
    /\ resp.outcome = "route"
    /\ Matched.handler.beh \in {"derive", "slow"}
    /\ ~resp.ctx.cancels

\* C39: a timeout, deadline or cancellation a handler derives is confined
\* to that handler: once the handler invoked its cancel callback and
\* returned, a middleware resuming after Next does not see the context as
\* done unless the request itself was cancelled.
C39_DerivedContextConfined ==
    DerivedAndCancelled
    => \A k \in DOMAIN Polled : Polled[k].h.kind = "mw" => ~Polled[k].value

====
